---------------------------- MODULE Spec2Model ----------------------------
(***************************************************************************)
(* Model of ipc/glue/BackgroundImpl.cpp: the lazily created PBackground    *)
(* dispatcher thread, the same-process and cross-process actor creation    *)
(* protocols, actor teardown and the shutdown sequence.                    *)
(*                                                                         *)
(* Threads: the main thread ("main"), consumer threads (CThreads) and the  *)
(* dispatcher ("background") threads 1..spawned.  Every thread owns a FIFO *)
(* task queue; one model step runs one public call or one queued task to   *)
(* completion, exactly as one event of the thread's event loop does.       *)
(*                                                                         *)
(* The model follows a debug build: a failed MOZ_ASSERT, a MOZ_CRASH and a *)
(* null dereference all stop the process; crashed then names the first     *)
(* one and nothing else of the state is kept.                              *)
(*                                                                         *)
(* Functions of the source are operators over a record w holding the whole *)
(* program state (one field per variable, plus w.ret, the return value);   *)
(* an action commits the record its handler computes.                      *)
(***************************************************************************)
EXTENDS Integers, Sequences, FiniteSets, TLC

\* ------------------------------------------------------------------ bounds
MaxCalls == 2
MaxAllocs == 1
MaxSpawn == 2
MaxQueued == 3

MaxActors == IF MaxCalls + MaxAllocs > MaxQueued THEN MaxCalls + MaxAllocs ELSE MaxQueued
NULL == 0
CThreads == {"main", "w1"}
BgIds == 1..MaxSpawn
ActorIds == 1..MaxActors
FailKinds == {"none", "timer", "observer", "spawn", "dispatch"}

VARIABLES
  \* ParentImpl statics
  sBackgroundThread,              \* 0 or the id of the registered thread
  sLiveActorsForBackgroundThread, \* 0 or the id of the thread whose array it is
  sShutdownTimer,                 \* TRUE when the timer object is allocated
  sBackgroundPRThread,            \* 0 or a thread id
  sBackgroundThreadMessageLoop,   \* 0 or the id of the thread whose loop it is
  sLiveActorCount,
  sShutdownObserverRegistered,
  sShutdownHasStarted,            \* ParentImpl::sShutdownHasStarted
  sPendingCallbacks,              \* [isNull, elems]: elems are event targets
  liveActors,                     \* contents of each thread's live-actor array
  \* ChildImpl statics and thread-local slots
  sChildShutdownHasStarted,       \* ChildImpl::sShutdownHasStarted
  threadLocal,                    \* [t -> [exists, mActor, mCallbacks]]
  \* actors
  parentActor,                    \* [a -> ParentImpl fields]
  childActor,                     \* [a -> ChildImpl fields]
  numActors,
  \* threads and their task queues
  queue,                          \* [t \in CThreads -> Seq(task)]
  bgQueue,                        \* [tid -> Seq(task)]
  bgState,                        \* [tid -> "unborn" | "running" | "exited"]
  spin,                           \* the suspended frame of ShutdownBackgroundThread
  timerArmed,
  obsPending,                     \* shutdown observers still to be notified
  \* observation
  spawned,                        \* threads created by NS_NewNamedThread
  published,                      \* [tid -> writes of sBackgroundThreadMessageLoop]
  fired,                          \* [t -> Seq(<<callback, outcome, actor>>)]
  numCalls,                       \* GetOrCreateForCurrentThread calls made
  numAllocs,                      \* actors constructed by ParentImpl::Alloc
  late,                           \* result of the creation requests made after shutdown began
  timerFires,
  notified,                       \* the shutdown notification has been sent
  crashed,                        \* "" or the reason the process stopped
  got                             \* [t -> the last result of GetForCurrentThread on t]

vars == << sBackgroundThread, sLiveActorsForBackgroundThread, sShutdownTimer,
           sBackgroundPRThread, sBackgroundThreadMessageLoop, sLiveActorCount,
           sShutdownObserverRegistered, sShutdownHasStarted, sPendingCallbacks,
           liveActors, sChildShutdownHasStarted, threadLocal, parentActor,
           childActor, numActors, queue, bgQueue, bgState, spin, timerArmed,
           obsPending, spawned, published, fired, numCalls, numAllocs,
           late, timerFires, notified, crashed, got >>

\* The program state as one record; ret is the return value of the last call.
cur ==
  [ sBackgroundThread |-> sBackgroundThread,
    sLiveActorsForBackgroundThread |-> sLiveActorsForBackgroundThread,
    sShutdownTimer |-> sShutdownTimer,
    sBackgroundPRThread |-> sBackgroundPRThread,
    sBackgroundThreadMessageLoop |-> sBackgroundThreadMessageLoop,
    sLiveActorCount |-> sLiveActorCount,
    sShutdownObserverRegistered |-> sShutdownObserverRegistered,
    sShutdownHasStarted |-> sShutdownHasStarted,
    sPendingCallbacks |-> sPendingCallbacks,
    liveActors |-> liveActors,
    sChildShutdownHasStarted |-> sChildShutdownHasStarted,
    threadLocal |-> threadLocal,
    parentActor |-> parentActor,
    childActor |-> childActor,
    numActors |-> numActors,
    queue |-> queue,
    bgQueue |-> bgQueue,
    bgState |-> bgState,
    spin |-> spin,
    timerArmed |-> timerArmed,
    obsPending |-> obsPending,
    spawned |-> spawned,
    published |-> published,
    fired |-> fired,
    numCalls |-> numCalls,
    numAllocs |-> numAllocs,
    late |-> late,
    timerFires |-> timerFires,
    notified |-> notified,
    crashed |-> crashed,
    got |-> got,
    ret |-> FALSE ]

\* ----------------------------------------------------------------- helpers
Task(type, a, t) == [type |-> type, a |-> a, t |-> t]

NullPending == [isNull |-> TRUE, elems |-> << >>]

NoSlot == [exists |-> FALSE, mActor |-> NULL, mCallbacks |-> << >>]

NoParent ==
  [ st |-> "none", mIsOtherProcessActor |-> FALSE, mTransport |-> FALSE,
    mContent |-> FALSE, mLiveActorArray |-> NULL, mActorDestroyed |-> FALSE,
    refs |-> 0, loop |-> NULL, chan |-> "unopened", nDestroyed |-> 0,
    nDestroyPosted |-> 0, nMainDestroy |-> 0 ]

NoChild ==
  [ st |-> "none", mBoundThread |-> "", mActorDestroyed |-> FALSE,
    chan |-> "unopened" ]

\* No GetForCurrentThread call has returned on the thread yet.
NotAsked == [asked |-> FALSE, actor |-> NULL]

\* The state after construction (ChildImpl::Startup has run).
InitState ==
  [ sBackgroundThread |-> NULL,
    sLiveActorsForBackgroundThread |-> NULL,
    sShutdownTimer |-> FALSE,
    sBackgroundPRThread |-> NULL,
    sBackgroundThreadMessageLoop |-> NULL,
    sLiveActorCount |-> 0,
    sShutdownObserverRegistered |-> FALSE,
    sShutdownHasStarted |-> FALSE,
    sPendingCallbacks |-> NullPending,
    liveActors |-> [i \in BgIds |-> << >>],
    sChildShutdownHasStarted |-> FALSE,
    threadLocal |-> [t \in CThreads |-> NoSlot],
    parentActor |-> [a \in ActorIds |-> NoParent],
    childActor |-> [a \in ActorIds |-> NoChild],
    numActors |-> 0,
    queue |-> [t \in CThreads |-> << >>],
    bgQueue |-> [i \in BgIds |-> << >>],
    bgState |-> [i \in BgIds |-> "unborn"],
    spin |-> [on |-> FALSE, thread |-> NULL, liveActors |-> NULL],
    timerArmed |-> FALSE,
    obsPending |-> << >>,
    spawned |-> 0,
    published |-> [i \in BgIds |-> 0],
    fired |-> [t \in CThreads |-> << >>],
    numCalls |-> 0,
    numAllocs |-> 0,
    late |-> "none",
    timerFires |-> 0,
    notified |-> FALSE,
    crashed |-> "",
    got |-> [t \in CThreads |-> NotAsked],
    ret |-> FALSE ]

Assign(w) ==
  /\ sBackgroundThread' = w.sBackgroundThread
  /\ sLiveActorsForBackgroundThread' = w.sLiveActorsForBackgroundThread
  /\ sShutdownTimer' = w.sShutdownTimer
  /\ sBackgroundPRThread' = w.sBackgroundPRThread
  /\ sBackgroundThreadMessageLoop' = w.sBackgroundThreadMessageLoop
  /\ sLiveActorCount' = w.sLiveActorCount
  /\ sShutdownObserverRegistered' = w.sShutdownObserverRegistered
  /\ sShutdownHasStarted' = w.sShutdownHasStarted
  /\ sPendingCallbacks' = w.sPendingCallbacks
  /\ liveActors' = w.liveActors
  /\ sChildShutdownHasStarted' = w.sChildShutdownHasStarted
  /\ threadLocal' = w.threadLocal
  /\ parentActor' = w.parentActor
  /\ childActor' = w.childActor
  /\ numActors' = w.numActors
  /\ queue' = w.queue
  /\ bgQueue' = w.bgQueue
  /\ bgState' = w.bgState
  /\ spin' = w.spin
  /\ timerArmed' = w.timerArmed
  /\ obsPending' = w.obsPending
  /\ spawned' = w.spawned
  /\ published' = w.published
  /\ fired' = w.fired
  /\ numCalls' = w.numCalls
  /\ numAllocs' = w.numAllocs
  /\ late' = w.late
  /\ timerFires' = w.timerFires
  /\ notified' = w.notified
  /\ crashed' = w.crashed
  /\ got' = w.got

\* The step's result becomes the state; of a process that stopped only the
\* reason is kept.
Commit(w) ==
  /\ w.spawned <= MaxSpawn
  /\ Assign(IF w.crashed # "" THEN [InitState EXCEPT !.crashed = w.crashed] ELSE w)

\* MOZ_CRASH / null dereference: the process stops at the first one.
Crash(w, why) == IF w.crashed # "" THEN w ELSE [w EXCEPT !.crashed = why]

\* MOZ_ASSERT(cond)
Check(w, cond, name) == IF cond THEN w ELSE Crash(w, name)

\* nsIEventTarget::Dispatch to a consumer thread (or the main thread).
PostTo(w, t, task) == [w EXCEPT !.queue[t] = Append(@, task)]

\* nsIThread::Dispatch / MessageLoop::PostTask to a dispatcher thread; a thread
\* that has exited takes no more tasks.
PostBg(w, tid, task) ==
  IF tid \in BgIds /\ w.bgState[tid] = "running"
    THEN [w EXCEPT !.bgQueue[tid] = Append(@, task)]
    ELSE w

\* uint64_t sLiveActorCount: UINT64_MAX is written -1.
Inc(c) == c + 1
Dec(c) == c - 1

\* ------------------------------------------------- ParentImpl (main thread)

\* ParentImpl::ShutdownBackgroundThread, after the spin loop (or without it):
\* the timer is cancelled, ShutdownBackgroundThreadRunnable is dispatched and
\* nsIThread::Shutdown asks the thread to exit once its queue is drained.
FinishShutdownBackgroundThread(w, thread) ==
  LET w1 == PostBg(w, thread, Task("ShutdownBackgroundThreadRunnable", 0, ""))
      w2 == PostBg(w1, thread, Task("ThreadExit", 0, ""))
  IN  w2

\* ChildImpl::DispatchFailureCallback
DispatchFailureCallback(w, target) ==
  PostTo(w, target, Task("FailedCreateCallbackRunnable", 0, target))

\* ChildImpl::ParentCreateCallback::Failure for each element, in order.
RECURSIVE FailCallbacks(_, _)
FailCallbacks(w, cbs) ==
  IF cbs = << >> THEN w
  ELSE FailCallbacks(DispatchFailureCallback(w, Head(cbs)), Tail(cbs))

\* ParentImpl::ShutdownBackgroundThread up to the spin loop.  When the loop is
\* entered (final shutdown with live actors) the frame is kept in w.spin and
\* the main thread goes on running events inside it.
ShutdownBackgroundThread(w) ==
  LET a1 == Check(w, w.sBackgroundThread # NULL \/ w.sBackgroundThreadMessageLoop = NULL,
                  "ShutdownBackgroundThread: message loop without thread")
      a2 == Check(a1, w.sShutdownHasStarted \/ w.sLiveActorCount = 0,
                  "ShutdownBackgroundThread: live actors outside shutdown")
      a3 == Check(a2, w.sBackgroundThread # NULL \/ w.sLiveActorCount = 0,
                  "ShutdownBackgroundThread: live actors without thread")
      a4 == Check(a3, w.sBackgroundThread = NULL \/ w.sShutdownTimer,
                  "ShutdownBackgroundThread: thread without timer")
      w1 == IF a4.sPendingCallbacks.isNull THEN a4
            ELSE LET f == FailCallbacks(a4, a4.sPendingCallbacks.elems)
                 IN  [f EXCEPT !.sPendingCallbacks =
                        IF f.sShutdownHasStarted THEN NullPending
                        ELSE [isNull |-> FALSE, elems |-> << >>]]
      shutdownTimer == w1.sShutdownHasStarted /\ w1.sShutdownTimer
      w2 == IF w1.sShutdownHasStarted THEN [w1 EXCEPT !.sShutdownTimer = FALSE] ELSE w1
  IN  IF w2.sBackgroundThread = NULL THEN w2
      ELSE
        LET thread == w2.sBackgroundThread
            arr == w2.sLiveActorsForBackgroundThread
            w3 == [w2 EXCEPT !.sBackgroundThread = NULL,
                             !.sLiveActorsForBackgroundThread = NULL,
                             !.sBackgroundThreadMessageLoop = NULL]
        IN  IF w3.sShutdownHasStarted /\ w3.sLiveActorCount # 0
              THEN IF ~shutdownTimer
                     THEN Crash(w3, "ShutdownBackgroundThread: null shutdownTimer")
                     ELSE [w3 EXCEPT !.timerArmed = TRUE,
                                     !.spin = [on |-> TRUE, thread |-> thread,
                                               liveActors |-> arr]]
              ELSE FinishShutdownBackgroundThread(w3, thread)

\* CreateBackgroundThread without the early return on sShutdownHasStarted.
CreateBackgroundThread_NoShutdownCheck(w, fail) ==
  LET a1 == Check(w, w.sBackgroundThread = NULL,
                  "CreateBackgroundThread: thread exists")
      a2 == Check(a1, w.sLiveActorsForBackgroundThread = NULL,
                  "CreateBackgroundThread: array exists")
  IN  IF ~a2.sShutdownTimer /\ fail = "timer" THEN [a2 EXCEPT !.ret = FALSE]
      ELSE IF ~a2.sShutdownObserverRegistered /\ fail = "observer"
        THEN [a2 EXCEPT !.ret = FALSE]
      ELSE
        LET w1 == [a2 EXCEPT !.sShutdownObserverRegistered = TRUE]
        IN  IF fail = "spawn" THEN [w1 EXCEPT !.ret = FALSE]
            ELSE
              LET tid == w1.spawned + 1
                  w2 == [w1 EXCEPT !.spawned = tid,
                                   !.bgState = [i \in DOMAIN @ |->
                                                  IF i = tid THEN "running" ELSE @[i]]]
              IN  IF fail = "dispatch" THEN [w2 EXCEPT !.ret = FALSE]
                  ELSE
                    LET w3 == PostBg(w2, tid, Task("RequestMessageLoopRunnable", tid, ""))
                    IN  [w3 EXCEPT !.sBackgroundThread = tid,
                                   !.sLiveActorsForBackgroundThread = tid,
                                   !.liveActors = [i \in DOMAIN @ |->
                                                     IF i = tid THEN << >> ELSE @[i]],
                                   !.sShutdownTimer = TRUE,
                                   !.ret = TRUE]

\* CreateBackgroundThread storing the new timer in sShutdownTimer as soon as
\* it is created instead of after the thread is registered.
CreateBackgroundThread_EarlyTimer(w, fail) ==
  LET a1 == Check(w, w.sBackgroundThread = NULL,
                  "CreateBackgroundThread: thread exists")
      a2 == Check(a1, w.sLiveActorsForBackgroundThread = NULL,
                  "CreateBackgroundThread: array exists")
  IN  IF a2.sShutdownHasStarted THEN [a2 EXCEPT !.ret = FALSE]
      ELSE IF ~a2.sShutdownTimer /\ fail = "timer" THEN [a2 EXCEPT !.ret = FALSE]
      ELSE IF ~a2.sShutdownObserverRegistered /\ fail = "observer"
        THEN [a2 EXCEPT !.sShutdownTimer = TRUE, !.ret = FALSE]
      ELSE
        LET w1 == [a2 EXCEPT !.sShutdownObserverRegistered = TRUE,
                             !.sShutdownTimer = TRUE]
        IN  IF fail = "spawn" THEN [w1 EXCEPT !.ret = FALSE]
            ELSE
              LET tid == w1.spawned + 1
                  w2 == [w1 EXCEPT !.spawned = tid,
                                   !.bgState = [i \in DOMAIN @ |->
                                                  IF i = tid THEN "running" ELSE @[i]]]
              IN  IF fail = "dispatch" THEN [w2 EXCEPT !.ret = FALSE]
                  ELSE
                    LET w3 == PostBg(w2, tid, Task("RequestMessageLoopRunnable", tid, ""))
                    IN  [w3 EXCEPT !.sBackgroundThread = tid,
                                   !.sLiveActorsForBackgroundThread = tid,
                                   !.liveActors = [i \in DOMAIN @ |->
                                                     IF i = tid THEN << >> ELSE @[i]],
                                   !.ret = TRUE]

\* ParentImpl::CreateBackgroundThread; fail names the collaborator that fails.
CreateBackgroundThread(w, fail) ==
  LET a1 == Check(w, w.sBackgroundThread = NULL,
                  "CreateBackgroundThread: thread exists")
      a2 == Check(a1, w.sLiveActorsForBackgroundThread = NULL,
                  "CreateBackgroundThread: array exists")
  IN  IF a2.sShutdownHasStarted THEN [a2 EXCEPT !.ret = FALSE]
      ELSE IF ~a2.sShutdownTimer /\ fail = "timer" THEN [a2 EXCEPT !.ret = FALSE]
      ELSE IF ~a2.sShutdownObserverRegistered /\ fail = "observer"
        THEN [a2 EXCEPT !.ret = FALSE]
      ELSE
        LET w1 == [a2 EXCEPT !.sShutdownObserverRegistered = TRUE]
        IN  IF fail = "spawn" THEN [w1 EXCEPT !.ret = FALSE]
            ELSE
              LET tid == w1.spawned + 1
                  w2 == [w1 EXCEPT !.spawned = tid,
                                   !.bgState = [i \in DOMAIN @ |->
                                                  IF i = tid THEN "running" ELSE @[i]]]
              IN  IF fail = "dispatch" THEN [w2 EXCEPT !.ret = FALSE]
                  ELSE
                    LET w3 == PostBg(w2, tid, Task("RequestMessageLoopRunnable", tid, ""))
                    IN  [w3 EXCEPT !.sBackgroundThread = tid,
                                   !.sLiveActorsForBackgroundThread = tid,
                                   !.liveActors = [i \in DOMAIN @ |->
                                                     IF i = tid THEN << >> ELSE @[i]],
                                   !.sShutdownTimer = TRUE,
                                   !.ret = TRUE]

\* CreateActorForSameProcess asking for a thread whenever the message loop is
\* not yet known, instead of whenever no thread is registered.
CreateActorForSameProcess_NoThreadCheck(w, target, fail) ==
  LET w0 == IF w.sBackgroundThreadMessageLoop = NULL
              THEN CreateBackgroundThread(w, fail)
              ELSE [w EXCEPT !.ret = TRUE]
  IN  IF ~w0.ret THEN w0
      ELSE
        LET w1 == [w0 EXCEPT !.sLiveActorCount = Inc(@)]
        IN  IF w1.sBackgroundThreadMessageLoop # NULL
              THEN [PostTo(w1, "main", Task("CreateCallbackRunnable", 0, target))
                      EXCEPT !.ret = TRUE]
              ELSE [w1 EXCEPT !.sPendingCallbacks =
                                 [isNull |-> FALSE, elems |-> Append(@.elems, target)],
                              !.ret = TRUE]

\* CreateActorForSameProcess queueing the callback in sPendingCallbacks even
\* when the message loop is already published.
CreateActorForSameProcess_AlwaysQueue(w, target, fail) ==
  LET w0 == IF w.sBackgroundThread = NULL
              THEN CreateBackgroundThread(w, fail)
              ELSE [w EXCEPT !.ret = TRUE]
  IN  IF ~w0.ret THEN w0
      ELSE
        LET a1 == Check(w0, ~w0.sShutdownHasStarted,
                        "CreateActorForSameProcess: shutdown has started")
            w1 == [a1 EXCEPT !.sLiveActorCount = Inc(@)]
        IN  [w1 EXCEPT !.sPendingCallbacks =
                          [isNull |-> FALSE, elems |-> Append(@.elems, target)],
                       !.ret = TRUE]

\* ParentImpl::CreateActorForSameProcess; the callback is named by its target.
CreateActorForSameProcess(w, target, fail) ==
  LET w0 == IF w.sBackgroundThread = NULL
              THEN CreateBackgroundThread(w, fail)
              ELSE [w EXCEPT !.ret = TRUE]
  IN  IF ~w0.ret THEN w0
      ELSE
        LET a1 == Check(w0, ~w0.sShutdownHasStarted,
                        "CreateActorForSameProcess: shutdown has started")
            w1 == [a1 EXCEPT !.sLiveActorCount = Inc(@)]
        IN  IF w1.sBackgroundThreadMessageLoop # NULL
              THEN [PostTo(w1, "main", Task("CreateCallbackRunnable", 0, target))
                      EXCEPT !.ret = TRUE]
              ELSE [w1 EXCEPT !.sPendingCallbacks =
                                 [isNull |-> FALSE, elems |-> Append(@.elems, target)],
                              !.ret = TRUE]

\* new ParentImpl(...): one reference, held by the creator.
NewParent(w, other, loop) ==
  LET a == w.numActors + 1
  IN  [w EXCEPT !.numActors = a,
                !.parentActor[a] =
                   [NoParent EXCEPT !.st = "live", !.mIsOtherProcessActor = other,
                                    !.mTransport = other, !.mContent = other,
                                    !.refs = 1, !.loop = loop]]

\* ParentImpl::Release on thread thr; the last one runs ~ParentImpl.
ReleaseParent(w, a, thr) ==
  LET p == w.parentActor[a]
  IN  IF p.refs # 1 THEN [w EXCEPT !.parentActor[a].refs = p.refs - 1]
      ELSE
        LET a1 == Check(w, thr = "main", "~ParentImpl: not on the main thread")
            a2 == Check(a1, ~p.mContent, "~ParentImpl: mContent")
            a3 == Check(a2, ~p.mTransport, "~ParentImpl: mTransport")
        IN  [a3 EXCEPT !.parentActor[a].refs = 0, !.parentActor[a].st = "freed"]

\* Alloc constructing the actor without counting it.
Alloc_NoCount(w, procOk, fail, dispatchOk) ==
  IF ~procOk THEN [w EXCEPT !.ret = FALSE]
  ELSE
    LET w0 == IF w.sBackgroundThread = NULL
                THEN CreateBackgroundThread(w, fail)
                ELSE [w EXCEPT !.ret = TRUE]
    IN  IF ~w0.ret THEN w0
        ELSE
          LET a1 == Check(w0, w0.sLiveActorsForBackgroundThread # NULL,
                          "Alloc: no live actor array")
              w1 == [a1 EXCEPT !.numAllocs = @ + 1]
              w2 == NewParent(w1, TRUE, w1.sLiveActorsForBackgroundThread)
              a == w2.numActors
          IN  IF dispatchOk
                THEN [PostBg(w2, w2.sBackgroundThread, Task("ConnectActorRunnable", a, ""))
                        EXCEPT !.ret = TRUE]
                ELSE
                  LET a2 == Check(w2, w2.sLiveActorCount # 0, "Alloc: sLiveActorCount")
                      w3 == [a2 EXCEPT !.sLiveActorCount = Dec(@)]
                      w4 == IF w3.sLiveActorCount = 0
                              THEN ShutdownBackgroundThread(w3) ELSE w3
                  IN  [ReleaseParent(w4, a, "main") EXCEPT !.ret = FALSE]

\* Alloc asking for a new thread whether or not one is registered.
Alloc_AlwaysCreate(w, procOk, fail, dispatchOk) ==
  IF ~procOk THEN [w EXCEPT !.ret = FALSE]
  ELSE
    LET w0 == CreateBackgroundThread(w, fail)
    IN  IF ~w0.ret THEN w0
        ELSE
          LET a1 == Check(w0, w0.sLiveActorsForBackgroundThread # NULL,
                          "Alloc: no live actor array")
              w1 == [a1 EXCEPT !.sLiveActorCount = Inc(@), !.numAllocs = @ + 1]
              w2 == NewParent(w1, TRUE, w1.sLiveActorsForBackgroundThread)
              a == w2.numActors
          IN  IF dispatchOk
                THEN [PostBg(w2, w2.sBackgroundThread, Task("ConnectActorRunnable", a, ""))
                        EXCEPT !.ret = TRUE]
                ELSE
                  LET a2 == Check(w2, w2.sLiveActorCount # 0, "Alloc: sLiveActorCount")
                      w3 == [a2 EXCEPT !.sLiveActorCount = Dec(@)]
                      w4 == IF w3.sLiveActorCount = 0
                              THEN ShutdownBackgroundThread(w3) ELSE w3
                  IN  [ReleaseParent(w4, a, "main") EXCEPT !.ret = FALSE]

\* ParentImpl::Alloc
Alloc(w, procOk, fail, dispatchOk) ==
  IF ~procOk THEN [w EXCEPT !.ret = FALSE]
  ELSE
    LET w0 == IF w.sBackgroundThread = NULL
                THEN CreateBackgroundThread(w, fail)
                ELSE [w EXCEPT !.ret = TRUE]
    IN  IF ~w0.ret THEN w0
        ELSE
          LET a1 == Check(w0, w0.sLiveActorsForBackgroundThread # NULL,
                          "Alloc: no live actor array")
              w1 == [a1 EXCEPT !.sLiveActorCount = Inc(@), !.numAllocs = @ + 1]
              w2 == NewParent(w1, TRUE, w1.sLiveActorsForBackgroundThread)
              a == w2.numActors
          IN  IF dispatchOk
                THEN [PostBg(w2, w2.sBackgroundThread, Task("ConnectActorRunnable", a, ""))
                        EXCEPT !.ret = TRUE]
                ELSE
                  LET a2 == Check(w2, w2.sLiveActorCount # 0, "Alloc: sLiveActorCount")
                      w3 == [a2 EXCEPT !.sLiveActorCount = Dec(@)]
                      w4 == IF w3.sLiveActorCount = 0
                              THEN ShutdownBackgroundThread(w3) ELSE w3
                  IN  [ReleaseParent(w4, a, "main") EXCEPT !.ret = FALSE]

\* ParentImpl::Destroy (any thread)
Destroy(w, a) == PostTo(w, "main", Task("MainThreadActorDestroy", a, "main"))

\* MainThreadActorDestroy without the call of ShutdownBackgroundThread when
\* the count reaches zero.
MainThreadActorDestroy_KeepThread(w, a) ==
  LET p == w.parentActor[a]
      a1 == Check(w, p.mIsOtherProcessActor = p.mContent,
                  "MainThreadActorDestroy: mContent")
      a2 == Check(a1, p.mIsOtherProcessActor = p.mTransport,
                  "MainThreadActorDestroy: mTransport")
      w1 == [a2 EXCEPT !.parentActor[a].mTransport = FALSE,
                       !.parentActor[a].mContent = FALSE,
                       !.parentActor[a].nMainDestroy = @ + 1]
      a3 == Check(w1, w1.sLiveActorCount # 0, "MainThreadActorDestroy: sLiveActorCount")
      w2 == [a3 EXCEPT !.sLiveActorCount = Dec(@)]
  IN  ReleaseParent(w2, a, "main")

\* ParentImpl::MainThreadActorDestroy
MainThreadActorDestroy(w, a) ==
  LET p == w.parentActor[a]
      a1 == Check(w, p.mIsOtherProcessActor = p.mContent,
                  "MainThreadActorDestroy: mContent")
      a2 == Check(a1, p.mIsOtherProcessActor = p.mTransport,
                  "MainThreadActorDestroy: mTransport")
      w1 == [a2 EXCEPT !.parentActor[a].mTransport = FALSE,
                       !.parentActor[a].mContent = FALSE,
                       !.parentActor[a].nMainDestroy = @ + 1]
      a3 == Check(w1, w1.sLiveActorCount # 0, "MainThreadActorDestroy: sLiveActorCount")
      w2 == [a3 EXCEPT !.sLiveActorCount = Dec(@)]
      w3 == IF w2.sLiveActorCount = 0 THEN ShutdownBackgroundThread(w2) ELSE w2
  IN  ReleaseParent(w3, a, "main")

\* ------------------------------------------- ParentImpl (dispatcher thread)

\* ActorDestroy without MOZ_ASSERT(!mActorDestroyed).
ParentActorDestroy_NoAssert(w, a, tid) ==
  LET p == w.parentActor[a]
      arr == p.mLiveActorArray
      a1 == Check(w, w.sBackgroundPRThread = tid, "AssertIsOnBackgroundThread")
      w1 == [a1 EXCEPT !.parentActor[a].mActorDestroyed = TRUE,
                       !.parentActor[a].nDestroyed = @ + 1,
                       !.parentActor[a].chan = "closed",
                       !.parentActor[a].mLiveActorArray = NULL]
      w2 == IF arr = NULL THEN w1
            ELSE [w1 EXCEPT !.liveActors[arr] = SelectSeq(@, LAMBDA x : x # a)]
      w3 == [w2 EXCEPT !.parentActor[a].nDestroyPosted = @ + 1]
  IN  PostBg(w3, tid, Task("Destroy", a, ""))

\* ActorDestroy calling Destroy directly instead of dispatching it to its own
\* thread.
ParentActorDestroy_DirectDestroy(w, a, tid) ==
  LET p == w.parentActor[a]
      arr == p.mLiveActorArray
      a1 == Check(w, w.sBackgroundPRThread = tid, "AssertIsOnBackgroundThread")
      a2 == Check(a1, ~p.mActorDestroyed, "ParentImpl::ActorDestroy: mActorDestroyed")
      a3 == Check(a2, ~p.mIsOtherProcessActor \/ arr # NULL,
                  "ParentImpl::ActorDestroy: mLiveActorArray")
      w1 == [a3 EXCEPT !.parentActor[a].mActorDestroyed = TRUE,
                       !.parentActor[a].nDestroyed = @ + 1,
                       !.parentActor[a].chan = "closed",
                       !.parentActor[a].mLiveActorArray = NULL]
      w2 == IF arr = NULL THEN w1
            ELSE [w1 EXCEPT !.liveActors[arr] = SelectSeq(@, LAMBDA x : x # a)]
      w3 == [w2 EXCEPT !.parentActor[a].nDestroyPosted = @ + 1]
  IN  Destroy(w3, a)

\* ActorDestroy leaving the actor in the live-actor array.
ParentActorDestroy_NoRemove(w, a, tid) ==
  LET p == w.parentActor[a]
      arr == p.mLiveActorArray
      a1 == Check(w, w.sBackgroundPRThread = tid, "AssertIsOnBackgroundThread")
      a2 == Check(a1, ~p.mActorDestroyed, "ParentImpl::ActorDestroy: mActorDestroyed")
      a3 == Check(a2, ~p.mIsOtherProcessActor \/ arr # NULL,
                  "ParentImpl::ActorDestroy: mLiveActorArray")
      w1 == [a3 EXCEPT !.parentActor[a].mActorDestroyed = TRUE,
                       !.parentActor[a].nDestroyed = @ + 1,
                       !.parentActor[a].chan = "closed",
                       !.parentActor[a].mLiveActorArray = NULL]
      w3 == [w1 EXCEPT !.parentActor[a].nDestroyPosted = @ + 1]
  IN  PostBg(w3, tid, Task("Destroy", a, ""))

\* ParentImpl::ActorDestroy, called by the channel layer on thread tid.
ParentActorDestroy(w, a, tid) ==
  LET p == w.parentActor[a]
      arr == p.mLiveActorArray
      a1 == Check(w, w.sBackgroundPRThread = tid, "AssertIsOnBackgroundThread")
      a2 == Check(a1, ~p.mActorDestroyed, "ParentImpl::ActorDestroy: mActorDestroyed")
      a3 == Check(a2, ~p.mIsOtherProcessActor \/ arr # NULL,
                  "ParentImpl::ActorDestroy: mLiveActorArray")
      w1 == [a3 EXCEPT !.parentActor[a].mActorDestroyed = TRUE,
                       !.parentActor[a].nDestroyed = @ + 1,
                       !.parentActor[a].chan = "closed",
                       !.parentActor[a].mLiveActorArray = NULL]
      w2 == IF arr = NULL THEN w1
            ELSE [w1 EXCEPT !.liveActors[arr] = SelectSeq(@, LAMBDA x : x # a)]
      w3 == [w2 EXCEPT !.parentActor[a].nDestroyPosted = @ + 1]
  IN  PostBg(w3, tid, Task("Destroy", a, ""))

\* ParentImpl::SetLiveActorArray
SetLiveActorArray(w, a, arr, tid) ==
  LET p == w.parentActor[a]
      a1 == Check(w, w.sBackgroundPRThread = tid, "AssertIsOnBackgroundThread")
      a2 == Check(a1, \A i \in 1..Len(w.liveActors[arr]) : w.liveActors[arr][i] # a,
                  "SetLiveActorArray: already contained")
      a3 == Check(a2, p.mLiveActorArray = NULL, "SetLiveActorArray: mLiveActorArray")
      a4 == Check(a3, p.mIsOtherProcessActor, "SetLiveActorArray: mIsOtherProcessActor")
  IN  [a4 EXCEPT !.parentActor[a].mLiveActorArray = arr,
                 !.liveActors[arr] = Append(@, a)]

\* ConnectActorRunnable registering the actor in the live-actor array before
\* it calls Open.
ConnectActorRunnable_RegisterFirst(w, a, tid, openOk) ==
  LET a1 == Check(w, w.sBackgroundPRThread = tid, "AssertIsOnBackgroundThread")
      w1 == SetLiveActorArray(a1, a, a1.parentActor[a].loop, tid)
  IN  IF ~openOk THEN Destroy(w1, a)
      ELSE [w1 EXCEPT !.parentActor[a].chan = "open"]

\* ParentImpl::ConnectActorRunnable::Run; openOk is the result of Open.
ConnectActorRunnable(w, a, tid, openOk) ==
  LET a1 == Check(w, w.sBackgroundPRThread = tid, "AssertIsOnBackgroundThread")
  IN  IF ~openOk THEN Destroy(a1, a)
      ELSE SetLiveActorArray([a1 EXCEPT !.parentActor[a].chan = "open"],
                             a, a1.parentActor[a].loop, tid)

\* RequestMessageLoopRunnable::Run on the new thread reporting its loop
\* without storing its identity in sBackgroundPRThread.
RequestMessageLoopRunnableBg_NoIdentity(w, tid) ==
  PostTo(w, "main", Task("RequestMessageLoopRunnable", tid, "main"))

\* ParentImpl::RequestMessageLoopRunnable::Run on the new thread.
RequestMessageLoopRunnableBg(w, tid) ==
  LET old == w.sBackgroundPRThread
      w1 == [w EXCEPT !.sBackgroundPRThread = tid]
      a1 == Check(w1, old = NULL \/ old # tid,
                  "RequestMessageLoopRunnable: oldBackgroundThread")
  IN  PostTo(a1, "main", Task("RequestMessageLoopRunnable", tid, "main"))

\* CreateCallbackRunnable dispatched for each drained callback, in order.
\* The drained callbacks scheduled last to first.
DispatchCreateCallbacks_Reverse(w, cbs) ==
  LET n == Len(cbs)
  IN  [w EXCEPT !.queue["main"] =
         @ \o [i \in 1..n |-> Task("CreateCallbackRunnable", 0, cbs[n + 1 - i])]]

RECURSIVE DispatchCreateCallbacks(_, _)
DispatchCreateCallbacks(w, cbs) ==
  IF cbs = << >> THEN w
  ELSE DispatchCreateCallbacks(
         PostTo(w, "main", Task("CreateCallbackRunnable", 0, Head(cbs))), Tail(cbs))

\* RequestMessageLoopRunnable publishing the loop without checking that its
\* thread is still the registered one.
RequestMessageLoopRunnableMain_NoThreadCheck(w, tid) ==
  LET a1 == Check(w, w.sBackgroundThreadMessageLoop = NULL,
                  "RequestMessageLoopRunnable: message loop already set")
      w1 == [a1 EXCEPT !.sBackgroundThreadMessageLoop = tid,
                       !.published[tid] = @ + 1]
  IN  IF ~w1.sPendingCallbacks.isNull /\ w1.sPendingCallbacks.elems # << >>
        THEN DispatchCreateCallbacks(
               [w1 EXCEPT !.sPendingCallbacks.elems = << >>],
               w1.sPendingCallbacks.elems)
        ELSE w1

\* RequestMessageLoopRunnable::Run on the main thread comparing the reporting
\* thread with the registered one only when one is registered.
RequestMessageLoopRunnableMain_NoNullCheck(w, tid) ==
  IF w.sBackgroundThread # NULL /\ w.sBackgroundThread # tid THEN w
  ELSE
    LET a1 == Check(w, w.sBackgroundThreadMessageLoop = NULL,
                    "RequestMessageLoopRunnable: message loop already set")
        w1 == [a1 EXCEPT !.sBackgroundThreadMessageLoop = tid,
                         !.published[tid] = @ + 1]
    IN  IF ~w1.sPendingCallbacks.isNull /\ w1.sPendingCallbacks.elems # << >>
          THEN DispatchCreateCallbacks(
                 [w1 EXCEPT !.sPendingCallbacks.elems = << >>],
                 w1.sPendingCallbacks.elems)
          ELSE w1

\* ParentImpl::RequestMessageLoopRunnable::Run back on the main thread.
RequestMessageLoopRunnableMain(w, tid) ==
  IF w.sBackgroundThread = NULL \/ w.sBackgroundThread # tid THEN w
  ELSE
    LET a1 == Check(w, w.sBackgroundThreadMessageLoop = NULL,
                    "RequestMessageLoopRunnable: message loop already set")
        w1 == [a1 EXCEPT !.sBackgroundThreadMessageLoop = tid,
                         !.published[tid] = @ + 1]
    IN  IF ~w1.sPendingCallbacks.isNull /\ w1.sPendingCallbacks.elems # << >>
          THEN DispatchCreateCallbacks(
                 [w1 EXCEPT !.sPendingCallbacks.elems = << >>],
                 w1.sPendingCallbacks.elems)
          ELSE w1

\* ShutdownBackgroundThreadRunnable::Run storing null without comparing.
ShutdownBackgroundThreadRunnable_AlwaysClear(w, tid) ==
  [w EXCEPT !.sBackgroundPRThread = NULL]

\* ParentImpl::ShutdownBackgroundThreadRunnable::Run
ShutdownBackgroundThreadRunnable(w, tid) ==
  IF w.sBackgroundPRThread = tid THEN [w EXCEPT !.sBackgroundPRThread = NULL] ELSE w

\* Close() of each actor of the copied array; Close on a closed channel does
\* nothing, on an open one it ends in ParentImpl::ActorDestroy.
RECURSIVE CloseActors(_, _, _)
CloseActors(w, actors, tid) ==
  IF actors = << >> THEN w
  ELSE LET a == Head(actors)
           w1 == IF w.parentActor[a].chan = "open"
                   THEN ParentActorDestroy(w, a, tid) ELSE w
       IN  CloseActors(w1, Tail(actors), tid)

\* ParentImpl::ForceCloseBackgroundActorsRunnable::Run on the dispatcher thread.
ForceCloseBackgroundActorsRunnableBg(w, arr, tid) ==
  LET a1 == Check(w, w.sBackgroundPRThread = tid, "AssertIsOnBackgroundThread")
      w1 == CloseActors(a1, a1.liveActors[arr], tid)
  IN  PostTo(w1, "main", Task("ForceCloseBackgroundActorsRunnable", arr, "main"))

\* The main-thread half of ForceCloseBackgroundActorsRunnable giving back
\* nothing.
ForceCloseBackgroundActorsRunnableMain_NoDec(w) ==
  Check(w, w.sLiveActorCount # 0,
        "ForceCloseBackgroundActorsRunnable: sLiveActorCount")

\* ParentImpl::ForceCloseBackgroundActorsRunnable::Run back on the main thread.
ForceCloseBackgroundActorsRunnableMain(w) ==
  LET a1 == Check(w, w.sLiveActorCount # 0,
                  "ForceCloseBackgroundActorsRunnable: sLiveActorCount")
  IN  [a1 EXCEPT !.sLiveActorCount = Dec(@)]

\* ShutdownTimerCallback without the extra count taken for the forced-close
\* round trip.
ShutdownTimerCallback_NoInc(w) ==
  LET a1 == Check(w, w.sShutdownHasStarted, "ShutdownTimerCallback: sShutdownHasStarted")
      a2 == Check(a1, w.sLiveActorCount # 0, "ShutdownTimerCallback: sLiveActorCount")
      w1 == [a2 EXCEPT !.timerArmed = FALSE,
                       !.timerFires = @ + 1]
  IN  PostBg(w1, w1.spin.thread,
             Task("ForceCloseBackgroundActorsRunnable", w1.spin.liveActors, ""))

\* ParentImpl::ShutdownTimerCallback; the closure is the spin frame.
ShutdownTimerCallback(w) ==
  LET a1 == Check(w, w.sShutdownHasStarted, "ShutdownTimerCallback: sShutdownHasStarted")
      a2 == Check(a1, w.sLiveActorCount # 0, "ShutdownTimerCallback: sLiveActorCount")
      w1 == [a2 EXCEPT !.sLiveActorCount = Inc(@),
                       !.timerArmed = FALSE,
                       !.timerFires = @ + 1]
  IN  PostBg(w1, w1.spin.thread,
             Task("ForceCloseBackgroundActorsRunnable", w1.spin.liveActors, ""))

\* ParentImpl::CreateCallbackRunnable::Run, with ParentCreateCallback::Success:
\* a bare ParentImpl and a ChildImpl are constructed and the open task is
\* dispatched to the callback's event target.
CreateCallbackRunnable(w, target) ==
  LET a1 == Check(w, w.sBackgroundThreadMessageLoop # NULL,
                  "CreateCallbackRunnable: sBackgroundThreadMessageLoop")
      w1 == NewParent(a1, FALSE, a1.sBackgroundThreadMessageLoop)
      a == w1.numActors
      w2 == [w1 EXCEPT !.childActor[a] = [NoChild EXCEPT !.st = "live"]]
  IN  PostTo(w2, target, Task("OpenMainProcessActorRunnable", a, target))

\* ------------------------------------------------------------- ChildImpl

\* ChildImpl::ActorDestroy on thread t.
ChildActorDestroy(w, a, t) ==
  LET c == w.childActor[a]
      a1 == Check(w, c.mBoundThread = t, "ChildImpl::AssertIsOnBoundThread")
      a2 == Check(a1, ~c.mActorDestroyed, "ChildImpl::ActorDestroy: mActorDestroyed")
  IN  [a2 EXCEPT !.childActor[a].mActorDestroyed = TRUE]

\* Close() of a child actor on its thread: the channel layer calls ActorDestroy
\* and tells the linked parent channel, on the parent's message loop.
ChildClose(w, a, t) ==
  IF w.childActor[a].chan # "open" THEN w
  ELSE
    LET w1 == ChildActorDestroy([w EXCEPT !.childActor[a].chan = "closed"], a, t)
    IN  PostBg(w1, w1.parentActor[a].loop, Task("ChannelClosed", a, ""))

\* ThreadLocalDestructor deleting the slot without closing its actor.
ThreadLocalDestructor_NoClose(w, t) ==
  LET info == w.threadLocal[t]
  IN  IF ~info.exists THEN w
      ELSE [w EXCEPT !.threadLocal[t] = NoSlot]

\* ChildImpl::ThreadLocalDestructor for thread t's slot.
ThreadLocalDestructor(w, t) ==
  LET info == w.threadLocal[t]
  IN  IF ~info.exists THEN w
      ELSE
        LET w1 == IF info.mActor # NULL THEN ChildClose(w, info.mActor, t) ELSE w
        IN  [w1 EXCEPT !.threadLocal[t] = NoSlot]

\* ChildImpl::Shutdown setting the flag without clearing the main thread's
\* slot.
ChildShutdown_NoClose(w) ==
  IF w.sChildShutdownHasStarted
    THEN Check(w, ~w.threadLocal["main"].exists, "ChildImpl::Shutdown: thread-local set")
    ELSE [w EXCEPT !.sChildShutdownHasStarted = TRUE]

\* ChildImpl::Shutdown clearing sShutdownHasStarted when it is called again.
ChildShutdown_FlagReset(w) ==
  IF w.sChildShutdownHasStarted
    THEN [w EXCEPT !.sChildShutdownHasStarted = FALSE]
    ELSE ThreadLocalDestructor([w EXCEPT !.sChildShutdownHasStarted = TRUE], "main")

\* ChildImpl::Shutdown
ChildShutdown(w) ==
  IF w.sChildShutdownHasStarted
    THEN Check(w, ~w.threadLocal["main"].exists, "ChildImpl::Shutdown: thread-local set")
    ELSE ThreadLocalDestructor([w EXCEPT !.sChildShutdownHasStarted = TRUE], "main")

\* The observer entering ShutdownBackgroundThread without having called
\* ChildImpl::Shutdown first.
ParentShutdownObserve_SpinFirst(w) ==
  LET a1 == Check(w, ~w.sShutdownHasStarted, "ShutdownObserver: sShutdownHasStarted")
      w1 == [a1 EXCEPT !.sShutdownHasStarted = TRUE]
  IN  ShutdownBackgroundThread(w1)

\* ParentImpl::ShutdownObserver::Observe
ParentShutdownObserve(w) ==
  LET a1 == Check(w, ~w.sShutdownHasStarted, "ShutdownObserver: sShutdownHasStarted")
      w1 == [a1 EXCEPT !.sShutdownHasStarted = TRUE]
  IN  ShutdownBackgroundThread(ChildShutdown(w1))

\* ChildImpl::ShutdownObserver::Observe
ChildShutdownObserve(w) == ChildShutdown(w)

\* The callbacks taken from the end of the array instead of its front.
DrainCallbacks_Lifo(w, t, outcome, actor) ==
  LET cbs == w.threadLocal[t].mCallbacks
      n == Len(cbs)
  IN  [w EXCEPT !.fired[t] = @ \o [i \in 1..n |-> << cbs[n + 1 - i], outcome, actor >>],
                !.threadLocal[t].mCallbacks = << >>]

\* ChildImpl::GetNextCallback until it returns null, each callback notified
\* with the outcome and the actor it reports (NULL with ActorFailed).
DrainCallbacks(w, t, outcome, actor) ==
  LET cbs == w.threadLocal[t].mCallbacks
  IN  [w EXCEPT !.fired[t] = @ \o [i \in 1..Len(cbs) |-> << cbs[i], outcome, actor >>],
                !.threadLocal[t].mCallbacks = << >>]

\* GetForCurrentThread allocating the slot when the thread has none.
GetForCurrentThread_MakesSlot(w, t) ==
  IF ~w.threadLocal[t].exists
    THEN [w EXCEPT !.threadLocal[t] = [NoSlot EXCEPT !.exists = TRUE], !.ret = NULL]
    ELSE [w EXCEPT !.ret = w.threadLocal[t].mActor]

\* ChildImpl::GetForCurrentThread on thread t; ret is the actor returned.
GetForCurrentThread(w, t) ==
  IF ~w.threadLocal[t].exists
    THEN [w EXCEPT !.ret = NULL]
    ELSE [w EXCEPT !.ret = w.threadLocal[t].mActor]

\* FailedCreateCallbackRunnable notifying the first callback only (an if in
\* place of the while).
FailedCreateCallbackRunnable_FirstOnly(w, t) ==
  IF ~w.threadLocal[t].exists
    THEN Crash(w, "GetNextCallback: no thread-local info")
  ELSE IF w.threadLocal[t].mCallbacks = << >> THEN w
  ELSE [w EXCEPT !.fired[t] = Append(@, << Head(w.threadLocal[t].mCallbacks),
                                             "ActorFailed", NULL >>),
                 !.threadLocal[t].mCallbacks = Tail(@)]

\* ChildImpl::FailedCreateCallbackRunnable::Run
FailedCreateCallbackRunnable(w, t) ==
  IF ~w.threadLocal[t].exists
    THEN Crash(w, "GetNextCallback: no thread-local info")
    ELSE DrainCallbacks(w, t, "ActorFailed", NULL)

\* ChildImpl::AlreadyCreatedCallbackRunnable::Run
AlreadyCreatedCallbackRunnable(w, t) ==
  LET g == GetForCurrentThread(w, t)
  IN  IF g.ret = NULL THEN g
      ELSE DrainCallbacks(g, t, "ActorCreated", g.ret)

\* ChildImpl::OpenMainProcessActorRunnable::Run; openOk is the result of Open.
OpenMainProcessActorRunnable(w, a, t, openOk) ==
  IF ~w.threadLocal[t].exists
    THEN Crash(w, "GetNextCallback: no thread-local info")
  ELSE
    LET a1 == Check(w, w.threadLocal[t].mCallbacks # << >>,
                    "OpenMainProcessActorRunnable: no callback")
    IN  IF a1.parentActor[a].loop = NULL
          THEN Crash(a1, "Open: null message loop")
        ELSE IF ~openOk
          THEN LET w1 == Destroy(a1, a)
                   w2 == DrainCallbacks(w1, t, "ActorFailed", NULL)
                   w3 == [w2 EXCEPT !.childActor[a].st = "freed"]
               IN  ReleaseParent(w3, a, t)
        ELSE
          LET a2 == Check(a1, a1.threadLocal[t].mActor = NULL,
                          "OpenMainProcessActorRunnable: mActor already set")
              old == a2.threadLocal[t].mActor
              w1 == [a2 EXCEPT !.parentActor[a].chan = "open",
                               !.childActor[a].chan = "open",
                               !.childActor[a].mBoundThread = t,
                               !.threadLocal[t].mActor = a]
              w2 == IF old = NULL THEN w1
                    ELSE [w1 EXCEPT !.childActor[old].st = "freed"]
          IN  DrainCallbacks(w2, t, "ActorCreated", w2.threadLocal[t].mActor)

\* ChildImpl::OpenProtocolOnMainThread (main process)
OpenProtocolOnMainThread(w, target, fail) ==
  IF w.sChildShutdownHasStarted
    THEN [Crash(w, "OpenProtocolOnMainThread: shutdown has started") EXCEPT !.ret = FALSE]
  ELSE
    LET w1 == CreateActorForSameProcess(w, target, fail)
    IN  IF ~w1.ret
          THEN [DispatchFailureCallback(w1, target) EXCEPT !.ret = FALSE]
          ELSE w1

\* ChildImpl::CreateActorRunnable::Run
CreateActorRunnable(w, target, fail) == OpenProtocolOnMainThread(w, target, fail)

\* GetOrCreateForCurrentThread notifying the callback inline when the slot
\* already holds an actor.
GetOrCreateForCurrentThread_InlineReady(w, t, fail) ==
  LET cb == w.numCalls + 1
      info == w.threadLocal[t]
      created == ~info.exists
      w1 == [w EXCEPT !.numCalls = cb,
                      !.threadLocal[t] =
                         IF info.exists
                           THEN [info EXCEPT !.mCallbacks = Append(@, cb)]
                           ELSE [exists |-> TRUE, mActor |-> NULL,
                                 mCallbacks |-> << cb >>]]
  IN  IF w1.threadLocal[t].mActor # NULL
        THEN [DrainCallbacks(w1, t, "ActorCreated", w1.threadLocal[t].mActor)
                EXCEPT !.ret = TRUE]
      ELSE IF ~created THEN [w1 EXCEPT !.ret = TRUE]
      ELSE
        IF t = "main" THEN OpenProtocolOnMainThread(w1, t, fail)
        ELSE [PostTo(w1, "main", Task("CreateActorRunnable", 0, t))
                EXCEPT !.ret = TRUE]

\* GetOrCreateForCurrentThread dispatching no AlreadyCreatedCallbackRunnable
\* when the slot already holds an actor.
GetOrCreateForCurrentThread_NoAlreadyCreated(w, t, fail) ==
  LET cb == w.numCalls + 1
      info == w.threadLocal[t]
      created == ~info.exists
      w1 == [w EXCEPT !.numCalls = cb,
                      !.threadLocal[t] =
                         IF info.exists
                           THEN [info EXCEPT !.mCallbacks = Append(@, cb)]
                           ELSE [exists |-> TRUE, mActor |-> NULL,
                                 mCallbacks |-> << cb >>]]
  IN  IF w1.threadLocal[t].mActor # NULL \/ ~created
        THEN [w1 EXCEPT !.ret = TRUE]
      ELSE
        IF t = "main" THEN OpenProtocolOnMainThread(w1, t, fail)
        ELSE [PostTo(w1, "main", Task("CreateActorRunnable", 0, t))
                EXCEPT !.ret = TRUE]

\* ChildImpl::GetOrCreateForCurrentThread on thread t; the callback is numbered
\* by the call.
GetOrCreateForCurrentThread(w, t, fail) ==
  LET cb == w.numCalls + 1
      info == w.threadLocal[t]
      created == ~info.exists
      w1 == [w EXCEPT !.numCalls = cb,
                      !.threadLocal[t] =
                         IF info.exists
                           THEN [info EXCEPT !.mCallbacks = Append(@, cb)]
                           ELSE [exists |-> TRUE, mActor |-> NULL,
                                 mCallbacks |-> << cb >>]]
  IN  IF w1.threadLocal[t].mActor # NULL
        THEN [PostTo(w1, t, Task("AlreadyCreatedCallbackRunnable", 0, t))
                EXCEPT !.ret = TRUE]
      ELSE IF ~created THEN [w1 EXCEPT !.ret = TRUE]
      ELSE
        IF t = "main" THEN OpenProtocolOnMainThread(w1, t, fail)
        ELSE [PostTo(w1, "main", Task("CreateActorRunnable", 0, t))
                EXCEPT !.ret = TRUE]

\* ChildImpl::CloseForCurrentThread on thread t.
CloseForCurrentThread(w, t) ==
  IF ~w.threadLocal[t].exists
    THEN Crash(w, "CloseForCurrentThread: no PBackground actor")
    ELSE ThreadLocalDestructor(w, t)

\* ------------------------------------------------------------------- Init
Init ==
  /\ sBackgroundThread = InitState.sBackgroundThread
  /\ sLiveActorsForBackgroundThread = InitState.sLiveActorsForBackgroundThread
  /\ sShutdownTimer = InitState.sShutdownTimer
  /\ sBackgroundPRThread = InitState.sBackgroundPRThread
  /\ sBackgroundThreadMessageLoop = InitState.sBackgroundThreadMessageLoop
  /\ sLiveActorCount = InitState.sLiveActorCount
  /\ sShutdownObserverRegistered = InitState.sShutdownObserverRegistered
  /\ sShutdownHasStarted = InitState.sShutdownHasStarted
  /\ sPendingCallbacks = InitState.sPendingCallbacks
  /\ liveActors = InitState.liveActors
  /\ sChildShutdownHasStarted = InitState.sChildShutdownHasStarted
  /\ threadLocal = InitState.threadLocal
  /\ parentActor = InitState.parentActor
  /\ childActor = InitState.childActor
  /\ numActors = InitState.numActors
  /\ queue = InitState.queue
  /\ bgQueue = InitState.bgQueue
  /\ bgState = InitState.bgState
  /\ spin = InitState.spin
  /\ timerArmed = InitState.timerArmed
  /\ obsPending = InitState.obsPending
  /\ spawned = InitState.spawned
  /\ published = InitState.published
  /\ fired = InitState.fired
  /\ numCalls = InitState.numCalls
  /\ numAllocs = InitState.numAllocs
  /\ late = InitState.late
  /\ timerFires = InitState.timerFires
  /\ notified = InitState.notified
  /\ crashed = InitState.crashed
  /\ got = InitState.got

\* -------------------------------------------------------------- scheduling

\* The main thread runs an event either at the top level of its loop, when no
\* shutdown observer is waiting to be called, or inside the spin loop of
\* ShutdownBackgroundThread while sLiveActorCount is non-zero.
MainCanRun ==
  /\ crashed = ""
  /\ \/ spin.on /\ sLiveActorCount # 0
     \/ ~spin.on /\ obsPending = << >>

CanRun(t) == IF t = "main" THEN MainCanRun ELSE crashed = ""

HeadIs(q, type) == q # << >> /\ Head(q).type = type

Pop(w, t) == [w EXCEPT !.queue[t] = Tail(@)]

PopBg(w, tid) == [w EXCEPT !.bgQueue[tid] = Tail(@)]

\* A creation request made after ParentImpl's shutdown began is recorded with
\* its result: "ok" if it returned success, spawned a thread or made an actor.
Stamp(w0, w1) ==
  IF ~w0.sShutdownHasStarted THEN w1
  ELSE [w1 EXCEPT !.late =
          IF w1.ret \/ w1.spawned # w0.spawned \/ w1.numActors # w0.numActors
            THEN "ok"
            ELSE IF @ = "ok" THEN "ok" ELSE "failed"]

\* ---------------------------------------------------------- public calls

CallGetOrCreate(t, fail, max) ==
  /\ CanRun(t)
  /\ numCalls < max
  /\ LET w1 == GetOrCreateForCurrentThread(cur, t, fail)
     IN  Commit(IF t = "main" /\ ~threadLocal[t].exists
                  THEN Stamp(cur, w1) ELSE w1)

CallGetOrCreateForCurrentThread(t, fail) == CallGetOrCreate(t, fail, MaxCalls)

CallCloseForCurrentThread(t) ==
  /\ CanRun(t)
  /\ threadLocal[t].exists
  /\ Commit(CloseForCurrentThread(cur, t))

CallGetForCurrentThread(t) ==
  /\ CanRun(t)
  /\ LET g == GetForCurrentThread(cur, t)
     IN  Commit([g EXCEPT !.got[t] = [asked |-> TRUE, actor |-> g.ret]])

CallAlloc(procOk, fail, dispatchOk) ==
  /\ MainCanRun
  /\ numAllocs < MaxAllocs
  /\ Commit(Stamp(cur, Alloc(cur, procOk, fail, dispatchOk)))

\* ------------------------------------------------------- shutdown sequence

RunObserver(w, who) ==
  IF who = "parent" THEN ParentShutdownObserve(w) ELSE ChildShutdownObserve(w)

\* xpcom-shutdown-threads is notified: the observers registered at that moment
\* are called one after the other, in an order the observer service picks.
NotifyShutdown(order) ==
  /\ MainCanRun
  /\ ~spin.on
  /\ ~notified
  /\ order \in (IF sShutdownObserverRegistered
                  THEN {<< "child", "parent" >>, << "parent", "child" >>}
                  ELSE {<< "child" >>})
  /\ Commit([RunObserver(cur, Head(order))
               EXCEPT !.notified = TRUE, !.obsPending = Tail(order)])

ObserveNext ==
  /\ crashed = ""
  /\ ~spin.on
  /\ obsPending # << >>
  /\ Commit(RunObserver([cur EXCEPT !.obsPending = Tail(@)], Head(obsPending)))

\* The one-shot timer armed by ShutdownBackgroundThread fires.
TimerFire ==
  /\ MainCanRun
  /\ timerArmed
  /\ Commit(ShutdownTimerCallback(cur))

\* The end of the spin loop without shutdownTimer->Cancel().
SpinExit_NoCancel ==
  /\ crashed = ""
  /\ spin.on
  /\ sLiveActorCount = 0
  /\ LET a1 == Check(cur, liveActors[spin.liveActors] = << >>,
                     "ShutdownBackgroundThread: liveActors not empty")
         w1 == [a1 EXCEPT !.spin.on = FALSE]
     IN  Commit(FinishShutdownBackgroundThread(w1, spin.thread))

\* The spin loop of ShutdownBackgroundThread ends: sLiveActorCount is zero.
SpinExit ==
  /\ crashed = ""
  /\ spin.on
  /\ sLiveActorCount = 0
  /\ LET a1 == Check(cur, liveActors[spin.liveActors] = << >>,
                     "ShutdownBackgroundThread: liveActors not empty")
         w1 == [a1 EXCEPT !.timerArmed = FALSE, !.spin.on = FALSE]
     IN  Commit(FinishShutdownBackgroundThread(w1, spin.thread))

\* ------------------------------------------------------ main-thread tasks

TaskRequestMessageLoopMain ==
  /\ MainCanRun
  /\ HeadIs(queue["main"], "RequestMessageLoopRunnable")
  /\ Commit(RequestMessageLoopRunnableMain(Pop(cur, "main"), Head(queue["main"]).a))

TaskCreateCallback ==
  /\ MainCanRun
  /\ HeadIs(queue["main"], "CreateCallbackRunnable")
  /\ Commit(CreateCallbackRunnable(Pop(cur, "main"), Head(queue["main"]).t))

TaskCreateActor(fail) ==
  /\ MainCanRun
  /\ HeadIs(queue["main"], "CreateActorRunnable")
  /\ Commit(Stamp(cur, CreateActorRunnable(Pop(cur, "main"), Head(queue["main"]).t, fail)))

\* MainThreadActorDestroy on an actor whose last reference is already gone is a
\* use after free: it either stops the process or runs on the stale object.
TaskMainThreadActorDestroy(stale) ==
  /\ MainCanRun
  /\ HeadIs(queue["main"], "MainThreadActorDestroy")
  /\ LET a == Head(queue["main"]).a
     IN  IF parentActor[a].refs = 0
           THEN IF stale = "stop"
                  THEN Commit(Crash(cur, "MainThreadActorDestroy: released actor"))
                  ELSE Commit(MainThreadActorDestroy(Pop(cur, "main"), a))
           ELSE stale = "run" /\ Commit(MainThreadActorDestroy(Pop(cur, "main"), a))

TaskForceCloseMain ==
  /\ MainCanRun
  /\ HeadIs(queue["main"], "ForceCloseBackgroundActorsRunnable")
  /\ Commit(ForceCloseBackgroundActorsRunnableMain(Pop(cur, "main")))

\* ---------------------------------------------------- consumer-thread tasks

TaskAlreadyCreated(t) ==
  /\ CanRun(t)
  /\ HeadIs(queue[t], "AlreadyCreatedCallbackRunnable")
  /\ Commit(AlreadyCreatedCallbackRunnable(Pop(cur, t), t))

TaskFailedCreate(t) ==
  /\ CanRun(t)
  /\ HeadIs(queue[t], "FailedCreateCallbackRunnable")
  /\ Commit(FailedCreateCallbackRunnable(Pop(cur, t), t))

TaskOpenMainProcessActor(t, openOk) ==
  /\ CanRun(t)
  /\ HeadIs(queue[t], "OpenMainProcessActorRunnable")
  /\ Commit(OpenMainProcessActorRunnable(Pop(cur, t), Head(queue[t]).a, t, openOk))

\* -------------------------------------------------- dispatcher-thread tasks

BgCanRun(tid) == crashed = "" /\ bgState[tid] = "running"

BgRequestMessageLoop(tid) ==
  /\ BgCanRun(tid)
  /\ HeadIs(bgQueue[tid], "RequestMessageLoopRunnable")
  /\ Commit(RequestMessageLoopRunnableBg(PopBg(cur, tid), tid))

BgConnectActor(tid, openOk) ==
  /\ BgCanRun(tid)
  /\ HeadIs(bgQueue[tid], "ConnectActorRunnable")
  /\ Commit(ConnectActorRunnable(PopBg(cur, tid), Head(bgQueue[tid]).a, tid, openOk))

\* The peer process of an open cross-process actor goes away: the channel
\* layer reports the error on the actor's dispatcher thread and calls
\* ActorDestroy.
BgPeerDisconnect(tid, a) ==
  /\ BgCanRun(tid)
  /\ parentActor[a].mIsOtherProcessActor
  /\ parentActor[a].chan = "open"
  /\ parentActor[a].loop = tid
  /\ Commit(ParentActorDestroy(cur, a, tid))

\* The channel layer learns on the dispatcher thread that the linked child
\* channel has closed; it calls ActorDestroy if the channel is still open.
BgChannelClosed(tid) ==
  /\ BgCanRun(tid)
  /\ HeadIs(bgQueue[tid], "ChannelClosed")
  /\ LET a == Head(bgQueue[tid]).a
         w == PopBg(cur, tid)
     IN  Commit(IF parentActor[a].chan = "open" THEN ParentActorDestroy(w, a, tid) ELSE w)

BgDestroy(tid) ==
  /\ BgCanRun(tid)
  /\ HeadIs(bgQueue[tid], "Destroy")
  /\ Commit(Destroy(PopBg(cur, tid), Head(bgQueue[tid]).a))

BgForceClose(tid) ==
  /\ BgCanRun(tid)
  /\ HeadIs(bgQueue[tid], "ForceCloseBackgroundActorsRunnable")
  /\ Commit(ForceCloseBackgroundActorsRunnableBg(PopBg(cur, tid), Head(bgQueue[tid]).a, tid))

BgShutdownRunnable(tid) ==
  /\ BgCanRun(tid)
  /\ HeadIs(bgQueue[tid], "ShutdownBackgroundThreadRunnable")
  /\ Commit(ShutdownBackgroundThreadRunnable(PopBg(cur, tid), tid))

\* nsIThread::Shutdown: the thread exits once the events queued behind the
\* shutdown request have run.
BgThreadExit(tid) ==
  /\ BgCanRun(tid)
  /\ HeadIs(bgQueue[tid], "ThreadExit")
  /\ Commit(IF Len(bgQueue[tid]) = 1
              THEN [cur EXCEPT !.bgQueue[tid] = << >>, !.bgState[tid] = "exited"]
              ELSE [cur EXCEPT !.bgQueue[tid] = Append(Tail(@), Head(@))])

\* ------------------------------------------------------------------- Next
Next ==
  \/ \E t \in CThreads, fail \in FailKinds : CallGetOrCreateForCurrentThread(t, fail)
  \/ \E t \in CThreads : CallCloseForCurrentThread(t)
  \/ \E procOk \in BOOLEAN, fail \in FailKinds, dispatchOk \in BOOLEAN :
       CallAlloc(procOk, fail, dispatchOk)
  \/ \E order \in {<< "child" >>, << "child", "parent" >>, << "parent", "child" >>} :
       NotifyShutdown(order)
  \/ ObserveNext
  \/ TimerFire
  \/ SpinExit
  \/ TaskRequestMessageLoopMain
  \/ TaskCreateCallback
  \/ \E fail \in FailKinds : TaskCreateActor(fail)
  \/ \E stale \in {"run", "stop"} : TaskMainThreadActorDestroy(stale)
  \/ TaskForceCloseMain
  \/ \E t \in CThreads : TaskAlreadyCreated(t)
  \/ \E t \in CThreads : TaskFailedCreate(t)
  \/ \E t \in CThreads, openOk \in BOOLEAN : TaskOpenMainProcessActor(t, openOk)
  \/ \E tid \in BgIds : BgRequestMessageLoop(tid)
  \/ \E tid \in BgIds, openOk \in BOOLEAN : BgConnectActor(tid, openOk)
  \/ \E tid \in BgIds, a \in ActorIds : BgPeerDisconnect(tid, a)
  \/ \E tid \in BgIds : BgChannelClosed(tid)
  \/ \E tid \in BgIds : BgDestroy(tid)
  \/ \E tid \in BgIds : BgForceClose(tid)
  \/ \E tid \in BgIds : BgShutdownRunnable(tid)
  \/ \E tid \in BgIds : BgThreadExit(tid)

Spec == Init /\ [][Next]_vars

\* The main process without content processes: only same-process actors are
\* made, and up to MaxQueued calls of GetOrCreateForCurrentThread.
QueueGetOrCreateForCurrentThread(t, fail) == CallGetOrCreate(t, fail, MaxQueued)

NextSameProcess ==
  \/ \E t \in CThreads, fail \in FailKinds : QueueGetOrCreateForCurrentThread(t, fail)
  \/ \E t \in CThreads : CallCloseForCurrentThread(t)
  \/ \E order \in {<< "child" >>, << "child", "parent" >>, << "parent", "child" >>} :
       NotifyShutdown(order)
  \/ ObserveNext
  \/ TimerFire
  \/ SpinExit
  \/ TaskRequestMessageLoopMain
  \/ TaskCreateCallback
  \/ \E fail \in FailKinds : TaskCreateActor(fail)
  \/ \E stale \in {"run", "stop"} : TaskMainThreadActorDestroy(stale)
  \/ TaskForceCloseMain
  \/ \E t \in CThreads : TaskAlreadyCreated(t)
  \/ \E t \in CThreads : TaskFailedCreate(t)
  \/ \E t \in CThreads, openOk \in BOOLEAN : TaskOpenMainProcessActor(t, openOk)
  \/ \E tid \in BgIds : BgRequestMessageLoop(tid)
  \/ \E tid \in BgIds : BgChannelClosed(tid)
  \/ \E tid \in BgIds : BgDestroy(tid)
  \/ \E tid \in BgIds : BgForceClose(tid)
  \/ \E tid \in BgIds : BgShutdownRunnable(tid)
  \/ \E tid \in BgIds : BgThreadExit(tid)

SpecSameProcess == Init /\ [][NextSameProcess]_vars

\* Same-process consumers that also query their slot with
\* GetForCurrentThread.
NextQuery ==
  \/ \E t \in CThreads, fail \in FailKinds : CallGetOrCreateForCurrentThread(t, fail)
  \/ \E t \in CThreads : CallGetForCurrentThread(t)
  \/ \E t \in CThreads : CallCloseForCurrentThread(t)
  \/ \E order \in {<< "child" >>, << "child", "parent" >>, << "parent", "child" >>} :
       NotifyShutdown(order)
  \/ ObserveNext
  \/ TimerFire
  \/ SpinExit
  \/ TaskRequestMessageLoopMain
  \/ TaskCreateCallback
  \/ \E fail \in FailKinds : TaskCreateActor(fail)
  \/ \E stale \in {"run", "stop"} : TaskMainThreadActorDestroy(stale)
  \/ TaskForceCloseMain
  \/ \E t \in CThreads : TaskAlreadyCreated(t)
  \/ \E t \in CThreads : TaskFailedCreate(t)
  \/ \E t \in CThreads, openOk \in BOOLEAN : TaskOpenMainProcessActor(t, openOk)
  \/ \E tid \in BgIds : BgRequestMessageLoop(tid)
  \/ \E tid \in BgIds : BgChannelClosed(tid)
  \/ \E tid \in BgIds : BgDestroy(tid)
  \/ \E tid \in BgIds : BgForceClose(tid)
  \/ \E tid \in BgIds : BgShutdownRunnable(tid)
  \/ \E tid \in BgIds : BgThreadExit(tid)

SpecQuery == Init /\ [][NextQuery]_vars

\* The channel layer calling ActorDestroy again on an actor it has already
\* torn down (ParentImpl on its dispatcher thread, ChildImpl on its bound
\* thread).
BgActorDestroyAgain(tid, a) ==
  /\ BgCanRun(tid)
  /\ parentActor[a].st = "live"
  /\ parentActor[a].mActorDestroyed
  /\ parentActor[a].loop = tid
  /\ Commit(ParentActorDestroy(cur, a, tid))

ChildActorDestroyAgain(t, a) ==
  /\ CanRun(t)
  /\ childActor[a].st = "live"
  /\ childActor[a].mActorDestroyed
  /\ childActor[a].mBoundThread = t
  /\ Commit(ChildActorDestroy(cur, a, t))

NextTeardownTwice ==
  \/ Next
  \/ \E tid \in BgIds, a \in ActorIds : BgActorDestroyAgain(tid, a)
  \/ \E t \in CThreads, a \in ActorIds : ChildActorDestroyAgain(t, a)

SpecTeardownTwice == Init /\ [][NextTeardownTwice]_vars

\* ================================================================ properties

\* The number of tasks of one type in a queue.
CountTasks(q, type) == Cardinality({i \in 1..Len(q) : q[i].type = type})

\* C1: while a dispatcher thread is registered no step spawns another one, so
\* the registered thread is always the last one spawned; the assertion
\* !sBackgroundThread of CreateBackgroundThread never fails; each thread's
\* message loop is written to sBackgroundThreadMessageLoop at most once, and
\* the published loop is the registered thread's.
C1_OneThreadOnePublication ==
  [][ /\ crashed' # "CreateBackgroundThread: thread exists"
      /\ crashed' = "" =>
            /\ (sBackgroundThread # NULL => spawned' = spawned)
            /\ (sBackgroundThread' # NULL => sBackgroundThread' = spawned')
            /\ \A tid \in BgIds : published'[tid] <= 1
            /\ (sBackgroundThreadMessageLoop' # NULL =>
                  sBackgroundThreadMessageLoop' = sBackgroundThread') ]_vars

\* Three creation requests (one Alloc, two same-process) were issued before
\* the only thread reported readiness; its loop has now been published once
\* and the two queued callbacks were scheduled.
C1_Witness ==
  /\ spawned = 1
  /\ published[1] = 1
  /\ sBackgroundThreadMessageLoop = 1
  /\ numAllocs = 1
  /\ CountTasks(queue["main"], "CreateCallbackRunnable") = 2

\* C2: once ParentImpl::sShutdownHasStarted is set no step spawns a thread,
\* no creation request made from then on returns success or constructs an
\* actor (Alloc returns null; the same-process path stops the process in
\* OpenProtocolOnMainThread), and CreateActorForSameProcess is never reached
\* with the flag set.
C2_NoCreationAfterShutdown ==
  [][ sShutdownHasStarted =>
        /\ (crashed' = "" => spawned' = spawned)
        /\ late' # "ok"
        /\ crashed' # "CreateActorForSameProcess: shutdown has started" ]_vars

\* An Alloc made after shutdown began has returned null.
C2_Witness == sShutdownHasStarted /\ late = "failed" /\ crashed = ""

\* The notifications one drain of the callbacks cbs delivers.
Notified(cbs, outcome, actor) == [i \in 1..Len(cbs) |-> << cbs[i], outcome, actor >>]

\* C3: on every thread the callbacks are invoked in the order of their calls
\* and none twice; every step that invokes callbacks on a thread invokes all
\* the callbacks queued in that thread's slot, first to last, with one
\* outcome (ActorCreated or ActorFailed), and leaves the queue empty, so none
\* is skipped.
C3_FifoExactlyOnce ==
  [][ crashed' = "" =>
        \A t \in CThreads :
          /\ \A i, j \in 1..Len(fired'[t]) : i < j => fired'[t][i][1] < fired'[t][j][1]
          /\ fired'[t] # fired[t] =>
                /\ threadLocal[t].mCallbacks # << >>
                /\ \E o \in {"ActorCreated", "ActorFailed"}, a \in {NULL} \cup ActorIds :
                     fired'[t] = fired[t] \o Notified(threadLocal[t].mCallbacks, o, a)
                /\ threadLocal'[t].mCallbacks = << >> ]_vars

\* Thread w1 made three calls and its three callbacks were told ActorCreated
\* with the one actor constructed, in the order of the calls.
C3_Witness ==
  /\ numActors = 1
  /\ fired["w1"] = Notified(<< 1, 2, 3 >>, "ActorCreated", 1)
  /\ threadLocal["w1"].mActor = 1

\* The construction stages queued for thread t: CreateActorRunnable,
\* sPendingCallbacks elements, CreateCallbackRunnable on the main thread and
\* OpenMainProcessActorRunnable on t.
InFlight(t) ==
  Cardinality({i \in 1..Len(queue["main"]) :
                 /\ queue["main"][i].type \in {"CreateActorRunnable", "CreateCallbackRunnable"}
                 /\ queue["main"][i].t = t})
  + Cardinality({i \in 1..Len(sPendingCallbacks.elems) : sPendingCallbacks.elems[i] = t})
  + CountTasks(queue[t], "OpenMainProcessActorRunnable")

\* C4: a call of GetOrCreateForCurrentThread on a thread whose slot exists
\* without an actor only appends its callback, and at most one construction
\* sequence is in flight per thread.
C4_OneConstructionInFlight ==
  [][ crashed' = "" =>
        \A t \in CThreads :
          /\ (numCalls' # numCalls /\ threadLocal[t].exists /\ threadLocal[t].mActor = NULL
                /\ threadLocal'[t] # threadLocal[t]) =>
                 /\ threadLocal'[t] = [threadLocal[t] EXCEPT !.mCallbacks = Append(@, numCalls')]
                 /\ queue' = queue
                 /\ sPendingCallbacks' = sPendingCallbacks
                 /\ spawned' = spawned
          /\ InFlight(t)' <= 1 ]_vars

\* C5: the step of a GetOrCreateForCurrentThread call invokes no callback; a
\* call made while the slot holds an actor queues an
\* AlreadyCreatedCallbackRunnable on the calling thread; and every callback
\* told ActorCreated is given the actor held by its thread's slot.
C5_NotBeforeReturn ==
  [][ crashed' = "" =>
        /\ (numCalls' # numCalls => fired' = fired)
        /\ \A t \in CThreads :
             /\ (numCalls' # numCalls /\ threadLocal[t].mActor # NULL
                   /\ threadLocal'[t] # threadLocal[t]) =>
                    queue'[t] = Append(queue[t], Task("AlreadyCreatedCallbackRunnable", 0, t))
             /\ \A i \in (Len(fired[t]) + 1)..Len(fired'[t]) :
                  fired'[t][i][2] = "ActorCreated" =>
                    /\ threadLocal'[t].mActor # NULL
                    /\ fired'[t][i][3] = threadLocal'[t].mActor ]_vars

\* A call made on a thread that already has its actor has returned: its
\* callback waits in the slot for the AlreadyCreatedCallbackRunnable queued
\* on that thread, after an earlier callback was told ActorCreated.
C5_Witness ==
  \E t \in CThreads :
    /\ threadLocal[t].mActor # NULL
    /\ threadLocal[t].mCallbacks # << >>
    /\ HeadIs(queue[t], "AlreadyCreatedCallbackRunnable")
    /\ fired[t] # << >>

\* C6: when a failure is delivered on a thread, by
\* FailedCreateCallbackRunnable or by a failing Open in
\* OpenMainProcessActorRunnable, every callback then queued in the thread's
\* slot is told ActorFailed, first to last, and the queue is left empty.
C6_FailureReachesAll ==
  [][ \A t \in CThreads :
        (crashed' = "" /\ (TaskFailedCreate(t) \/ TaskOpenMainProcessActor(t, FALSE))) =>
          /\ fired'[t] = fired[t] \o Notified(threadLocal[t].mCallbacks, "ActorFailed", NULL)
          /\ threadLocal'[t].mCallbacks = << >> ]_vars

\* Thread w1 made three calls, no actor was ever constructed, and the three
\* callbacks were told ActorFailed in the order of the calls.
C6_Witness ==
  /\ numActors = 0
  /\ fired["w1"] = Notified(<< 1, 2, 3 >>, "ActorFailed", NULL)

ForceCloseDone ==
  /\ timerFires >= 1
  /\ spin.thread # NULL
  /\ CountTasks(bgQueue[spin.thread], "ForceCloseBackgroundActorsRunnable") = 0
  /\ CountTasks(queue["main"], "ForceCloseBackgroundActorsRunnable") = 0

\* C8 as claimed: once the forced-close pass is over no Parent actor,
\* same-process or cross-process, is still open: the straggler was closed from
\* the dispatcher thread.
C8_StragglerForced ==
  (crashed = "" /\ ForceCloseDone) =>
    \A a \in ActorIds : parentActor[a].chan # "open"

\* C9: when shutdown begins while the registered thread has not published
\* its message loop, the spin loop of ShutdownBackgroundThread does not wait
\* forever: while it waits with sLiveActorCount non-zero, the timer is still
\* armed, or a task is queued on some thread, or an actor is open whose
\* teardown can still lower the count.
C9_WindowShutdownTerminates ==
  (crashed = "" /\ spin.on /\ published[spin.thread] = 0 /\ sLiveActorCount # 0) =>
    \/ timerArmed
    \/ \E t \in CThreads : queue[t] # << >>
    \/ \E tid \in BgIds : bgQueue[tid] # << >>
    \/ \E a \in ActorIds : parentActor[a].chan = "open"

\* C10 as claimed: ActorDestroy on an actor already marked destroyed changes
\* nothing.
C10_SecondDestroyNoOp ==
  [][ /\ \A tid \in BgIds, a \in ActorIds : BgActorDestroyAgain(tid, a) => UNCHANGED vars
      /\ \A t \in CThreads, a \in ActorIds : ChildActorDestroyAgain(t, a) => UNCHANGED vars
    ]_vars

\* C10 amended: ActorDestroy on an actor already marked destroyed fails the
\* assertion !mActorDestroyed and stops the process; in a running process
\* every Parent actor has been marked destroyed at most once, has posted at
\* most one Destroy task and has had at most one MainThreadActorDestroy.
C10_SecondDestroyAsserts ==
  [][ /\ \A tid \in BgIds, a \in ActorIds :
           BgActorDestroyAgain(tid, a) =>
             crashed' = "ParentImpl::ActorDestroy: mActorDestroyed"
      /\ \A t \in CThreads, a \in ActorIds :
           ChildActorDestroyAgain(t, a) =>
             crashed' = "ChildImpl::ActorDestroy: mActorDestroyed"
      /\ crashed' = "" =>
           \A a \in ActorIds :
             /\ parentActor'[a].nDestroyed <= 1
             /\ parentActor'[a].nDestroyPosted <= 1
             /\ parentActor'[a].nMainDestroy <= 1
             /\ parentActor'[a].mActorDestroyed = (parentActor'[a].nDestroyed = 1) ]_vars

\* ActorDestroy was called on a Parent actor that was already marked
\* destroyed: the assertion stopped the process.
C10_Witness == crashed = "ParentImpl::ActorDestroy: mActorDestroyed"

\* C11: sLiveActorCount is never negative, and the assertion sLiveActorCount
\* that precedes each decrement (MainThreadActorDestroy, the main-thread half
\* of ForceCloseBackgroundActorsRunnable, the dispatch failure of Alloc) never
\* fails.
C11_CountNeverNegative ==
  /\ sLiveActorCount >= 0
  /\ crashed \notin { "MainThreadActorDestroy: sLiveActorCount",
                      "ForceCloseBackgroundActorsRunnable: sLiveActorCount",
                      "Alloc: sLiveActorCount" }

\* The timer fired, an actor's main-thread teardown and the main-thread half
\* of the forced-close pass both decremented the count, which reached zero,
\* and the spin loop was left.
C11_Witness ==
  /\ crashed = ""
  /\ timerFires = 1
  /\ ~spin.on
  /\ spin.thread # NULL
  /\ sLiveActorCount = 0
  /\ CountTasks(queue["main"], "ForceCloseBackgroundActorsRunnable") = 0
  /\ \E a \in ActorIds : parentActor[a].nMainDestroy = 1

\* C12: between main-thread tasks, sBackgroundThreadMessageLoop non-null
\* implies sBackgroundThread non-null, and sLiveActorsForBackgroundThread is
\* non-null exactly when sBackgroundThread is; the assertion of
\* ShutdownBackgroundThread that says the first never fails.
C12_HandleLoopArray ==
  /\ sBackgroundThreadMessageLoop # NULL => sBackgroundThread # NULL
  /\ (sLiveActorsForBackgroundThread # NULL) <=> (sBackgroundThread # NULL)
  /\ crashed # "ShutdownBackgroundThread: message loop without thread"

\* A first thread published its loop and was unregistered when the last actor
\* went away; a second thread is registered with its array, its loop not yet
\* published.
C12_Witness ==
  /\ published[1] = 1
  /\ sBackgroundThread = 2
  /\ sLiveActorsForBackgroundThread = 2
  /\ sBackgroundThreadMessageLoop = NULL
  /\ HeadIs(queue["main"], "RequestMessageLoopRunnable")

\* The allocated Parent actors whose MainThreadActorDestroy has not run.
LiveParents ==
  Cardinality({a \in ActorIds : parentActor[a].st # "none" /\ parentActor[a].nMainDestroy = 0})

\* The same-process requests accepted by CreateActorForSameProcess whose actor
\* is not yet constructed.
Reserved ==
  Len(sPendingCallbacks.elems) + CountTasks(queue["main"], "CreateCallbackRunnable")

\* The forced-close passes under way.
ForceCloseInFlight ==
  CountTasks(queue["main"], "ForceCloseBackgroundActorsRunnable")
  + Cardinality({tid \in BgIds :
                   CountTasks(bgQueue[tid], "ForceCloseBackgroundActorsRunnable") # 0})

\* The MainThreadActorDestroy calls that have run.
TornDown == Cardinality({a \in ActorIds : parentActor[a].nMainDestroy # 0})

\* C13 as claimed: in every state sLiveActorCount equals the number of
\* allocated Parent actors whose main-thread teardown has not yet run.
C13_CountEqualsLiveActors ==
  crashed = "" => sLiveActorCount = LiveParents

\* C13 amended: sLiveActorCount is at least the number of allocated Parent
\* actors whose main-thread teardown has not run, plus the same-process
\* requests accepted but not yet constructed, plus one while a forced-close
\* pass is under way; a step lowers it by one, and only when a
\* MainThreadActorDestroy runs or the forced-close pass comes back to the main
\* thread.
C13_CountCoversLiveActors ==
  [][ crashed' = "" =>
        /\ sLiveActorCount' >= LiveParents' + Reserved' + ForceCloseInFlight'
        /\ sLiveActorCount' < sLiveActorCount =>
              /\ sLiveActorCount' = sLiveActorCount - 1
              /\ \/ TornDown' = TornDown + 1
                 \/ CountTasks(queue'["main"], "ForceCloseBackgroundActorsRunnable")
                      < CountTasks(queue["main"], "ForceCloseBackgroundActorsRunnable") ]_vars

\* One actor has been torn down, one is live and a forced-close pass is under
\* way: the count is above the number of live actors.
C13_Witness ==
  /\ crashed = ""
  /\ TornDown >= 1
  /\ LiveParents = 1
  /\ sLiveActorCount > LiveParents
  /\ ForceCloseInFlight = 1

\* C14 as claimed: the step of ChildImpl::Shutdown that starts the Child-side
\* shutdown closes, or dispatches something to, every consumer thread whose
\* slot holds an actor.
C14_ShutdownClosesEverySlot ==
  [][ (crashed' = "" /\ ~sChildShutdownHasStarted /\ sChildShutdownHasStarted') =>
        \A t \in CThreads :
          threadLocal[t].mActor # NULL =>
            ~threadLocal'[t].exists \/ queue'[t] # queue[t] ]_vars

\* C14 amended: the step of ChildImpl::Shutdown that starts the Child-side
\* shutdown clears the main thread's slot and closes the actor it held, on
\* the main thread; the slot of every other thread, and the actor it holds,
\* are left as they were.  From then on the main thread has no slot.
C14_ShutdownClosesMainSlotOnly ==
  [][ crashed' = "" =>
        /\ sChildShutdownHasStarted' => ~threadLocal'["main"].exists
        /\ (~sChildShutdownHasStarted /\ sChildShutdownHasStarted') =>
              /\ threadLocal["main"].mActor # NULL =>
                    LET a == threadLocal["main"].mActor
                    IN  /\ childActor'[a].chan = "closed"
                        /\ childActor'[a].mActorDestroyed
              /\ \A t \in CThreads \ {"main"} :
                    /\ threadLocal'[t] = threadLocal[t]
                    /\ threadLocal[t].mActor # NULL =>
                          childActor'[threadLocal[t].mActor] = childActor[threadLocal[t].mActor]
      ]_vars

\* Shutdown has started; the main thread's actor was closed by it, thread w1's
\* slot still holds its open actor.
C14_Witness ==
  /\ sChildShutdownHasStarted
  /\ threadLocal["w1"].mActor # NULL
  /\ childActor[threadLocal["w1"].mActor].chan = "open"
  /\ \E a \in ActorIds :
       /\ childActor[a].mBoundThread = "main"
       /\ childActor[a].chan = "closed"
       /\ parentActor[a].nMainDestroy = 0

\* C15: an OpenMainProcessActorRunnable about to run on a thread finds that
\* thread's slot, also when CloseForCurrentThread was called while the
\* construction was in flight; and every open Child actor is the actor of
\* its bound thread's slot.
C15_OpenTaskFindsSlot ==
  crashed = "" =>
    /\ \A t \in CThreads :
         HeadIs(queue[t], "OpenMainProcessActorRunnable") => threadLocal[t].exists
    /\ \A a \in ActorIds :
         childActor[a].chan = "open" =>
           threadLocal[childActor[a].mBoundThread].mActor = a

\* C16: a Parent actor object is released only after MainThreadActorDestroy
\* has given up its transport and its content reference: the assertions
\* !mContent and !mTransport of ~ParentImpl never fail and no freed actor
\* still holds either.
C16_TransportGivenUpBeforeRelease ==
  /\ crashed \notin {"~ParentImpl: mContent", "~ParentImpl: mTransport"}
  /\ \A a \in ActorIds :
       parentActor[a].st = "freed" =>
         ~parentActor[a].mTransport /\ ~parentActor[a].mContent

\* C17: the step that clears a slot holding an actor leaves the thread with
\* no slot (GetForCurrentThread returns none), closes and destroys the Child
\* actor and tells the Parent actor's thread; until shutdown begins
\* sLiveActorCount is exactly the actors not yet torn down plus the requests
\* accepted, so it is back at its earlier value once the closed actor's
\* main-thread teardown has run; a thread is unregistered only by asking it
\* to exit or by spinning for it; and a shutdown that begins with the count at
\* zero finds no thread registered, does not spin and arms no timer.
C17_CloseReturnsToBaseline ==
  [][ crashed' = "" =>
        /\ \A t \in CThreads :
             (threadLocal[t].mActor # NULL /\ ~threadLocal'[t].exists) =>
               LET a == threadLocal[t].mActor
                   loop == parentActor[a].loop
               IN  /\ threadLocal'[t] = NoSlot
                   /\ childActor'[a].chan = "closed"
                   /\ childActor'[a].mActorDestroyed
                   /\ \E i \in 1..Len(bgQueue'[loop]) :
                        bgQueue'[loop][i] = Task("ChannelClosed", a, "")
        /\ ~sShutdownHasStarted' => sLiveActorCount' = LiveParents' + Reserved'
        /\ (sBackgroundThread # NULL /\ sBackgroundThread' = NULL) =>
             \/ spin'.on
             \/ CountTasks(bgQueue'[sBackgroundThread], "ThreadExit") = 1
        /\ (~sShutdownHasStarted /\ sShutdownHasStarted' /\ sLiveActorCount = 0) =>
             /\ sBackgroundThread = NULL
             /\ ~spin'.on
             /\ ~timerArmed'
        /\ (sShutdownHasStarted' /\ spin'.thread = NULL) =>
             timerFires' = 0 /\ ~timerArmed' ]_vars

\* Thread w1 had an actor and closed it; the actor's main-thread teardown ran,
\* the count returned to zero and the thread exited; shutdown was then notified
\* and finished without spinning or firing the timer.
C17_Witness ==
  /\ crashed = ""
  /\ sShutdownHasStarted
  /\ obsPending = << >>
  /\ spin.thread = NULL
  /\ timerFires = 0
  /\ sLiveActorCount = 0
  /\ ~threadLocal["w1"].exists
  /\ childActor[1].mBoundThread = "w1"
  /\ childActor[1].mActorDestroyed
  /\ parentActor[1].nMainDestroy = 1
  /\ bgState[1] = "exited"

\* C18: a GetForCurrentThread call on thread t returns the actor of t's slot,
\* or none when t has no slot or its slot has no actor yet, and changes
\* nothing else: no slot is made and no construction is started.
C18_PureQuery ==
  [][ \A t \in CThreads :
        CallGetForCurrentThread(t) =>
          /\ got'[t] = [asked |-> TRUE,
                        actor |-> IF threadLocal[t].exists
                                    THEN threadLocal[t].mActor ELSE NULL]
          /\ \A u \in CThreads \ {t} : got'[u] = got[u]
          /\ [cur EXCEPT !.got = NotAsked]' = [cur EXCEPT !.got = NotAsked] ]_vars

\* Thread w1 asked and was given its actor; the main thread asked and was
\* given none, having no slot, while w1's slot holds the actor.
C18_Witness ==
  /\ threadLocal["w1"].mActor # NULL
  /\ got["w1"] = [asked |-> TRUE, actor |-> threadLocal["w1"].mActor]
  /\ ~threadLocal["main"].exists
  /\ got["main"] = [asked |-> TRUE, actor |-> NULL]

\* C19: once set, ChildImpl::sShutdownHasStarted and
\* ParentImpl::sShutdownHasStarted stay set; a call of ChildImpl::Shutdown made
\* with the flag set changes nothing, its assertion holds, whether it comes
\* from ChildImpl::ShutdownObserver after the Parent's observer or from the
\* Parent's observer after the Child's; and the Parent's observer is never
\* called with its flag already set.
C19_ShutdownIdempotent ==
  [][ /\ crashed' \notin { "ChildImpl::Shutdown: thread-local set",
                           "ShutdownObserver: sShutdownHasStarted" }
      /\ crashed' = "" =>
           /\ sChildShutdownHasStarted => sChildShutdownHasStarted'
           /\ sShutdownHasStarted => sShutdownHasStarted'
           /\ sChildShutdownHasStarted' => ChildShutdown(cur)' = cur'
           /\ (ObserveNext /\ Head(obsPending) = "child") =>
                /\ sChildShutdownHasStarted
                /\ [cur EXCEPT !.obsPending = << >>]' = [cur EXCEPT !.obsPending = << >>]
           /\ (ObserveNext /\ Head(obsPending) = "parent") =>
                /\ sChildShutdownHasStarted
                /\ threadLocal' = threadLocal
                /\ childActor' = childActor ]_vars

\* Both shutdown observers have run, the Parent's first: ChildImpl::Shutdown
\* was called twice and the process goes on.
C19_Witness ==
  /\ crashed = ""
  /\ notified
  /\ obsPending = << >>
  /\ sShutdownHasStarted
  /\ sChildShutdownHasStarted
  /\ spin.thread # NULL
  /\ ~spin.on

\* C20 as claimed: over the whole lifetime CreateBackgroundThread spawns at
\* most one thread.
C20_CreatedAtMostOnce == spawned <= 1

\* C20 amended: a step spawns at most one thread, and only when no thread is
\* registered, shutdown has not begun and sLiveActorCount is zero, that is
\* after the earlier thread was unregistered because its last actor went
\* away; the assertion !sBackgroundThread of CreateBackgroundThread never
\* fails; a thread that is no longer registered never publishes its loop.
C20_OneThreadAtATime ==
  [][ /\ crashed' # "CreateBackgroundThread: thread exists"
      /\ crashed' = "" =>
           /\ spawned' <= spawned + 1
           /\ spawned' # spawned =>
                /\ sBackgroundThread = NULL
                /\ ~sShutdownHasStarted
                /\ sLiveActorCount = 0
                /\ sBackgroundThread' \in {NULL, spawned'}
           /\ \A tid \in BgIds :
                published'[tid] # published[tid] => sBackgroundThread = tid ]_vars

\* A first thread hosted an actor, was shut down when the actor went away and
\* has exited; a second thread was then spawned, has published its loop and
\* hosts the second actor.
C20_Witness ==
  /\ crashed = ""
  /\ spawned = 2
  /\ bgState[1] = "exited"
  /\ published[1] = 1
  /\ parentActor[1].loop = 1
  /\ parentActor[1].nMainDestroy = 1
  /\ sBackgroundThread = 2
  /\ published[2] = 1
  /\ parentActor[2].loop = 2
  /\ parentActor[2].chan = "open"

\* What a failed CreateBackgroundThread must leave alone whatever the reason:
\* the thread handle, the live-actor array, the timer and the count (and the
\* queues, the pending callbacks and the threads' arrays).
LeavesRegistryAlone(r) ==
  /\ r.sBackgroundThread = sBackgroundThread
  /\ r.sLiveActorsForBackgroundThread = sLiveActorsForBackgroundThread
  /\ r.sBackgroundThreadMessageLoop = sBackgroundThreadMessageLoop
  /\ r.liveActors = liveActors
  /\ r.sShutdownTimer = sShutdownTimer
  /\ r.timerArmed = timerArmed
  /\ r.sLiveActorCount = sLiveActorCount
  /\ r.sPendingCallbacks = sPendingCallbacks
  /\ r.queue = queue
  /\ r.bgQueue = bgQueue

\* The reasons for which CreateBackgroundThread fails in the current state.
TransientFailure(fail) ==
  \/ fail = "timer" /\ ~sShutdownTimer
  \/ fail = "observer" /\ ~sShutdownObserverRegistered
  \/ fail \in {"spawn", "dispatch"}

\* C21 as claimed: in every state where CreateBackgroundThread can be called
\* (no thread registered, shutdown not begun), a call that fails returns
\* false and leaves the handle, the array, the timer, the count and the
\* observer registration flag as they were.
C21_FailureLeavesNothing ==
  (crashed = "" /\ sBackgroundThread = NULL /\ ~sShutdownHasStarted) =>
    \A fail \in FailKinds :
      LET r == CreateBackgroundThread(cur, fail)
      IN  TransientFailure(fail) =>
            /\ ~r.ret
            /\ LeavesRegistryAlone(r)
            /\ r.sShutdownObserverRegistered = sShutdownObserverRegistered

\* C21 amended: a call that fails returns false, trips no assertion and
\* leaves the handle, the array, the timer and the count as they were; the
\* observer registration flag is left as it was when the timer or the
\* observer service fails, and is set (the observer having been added) when
\* the spawn or the dispatch of the readiness probe fails; a thread is
\* spawned only by the call whose probe dispatch fails, and it is not
\* registered.  A call with no failing collaborator made right after the
\* failure succeeds and registers a new thread.
C21_FailureLeavesObserver ==
  (crashed = "" /\ sBackgroundThread = NULL /\ ~sShutdownHasStarted) =>
    \A fail \in FailKinds :
      LET r == CreateBackgroundThread(cur, fail)
          again == CreateBackgroundThread(r, "none")
      IN  /\ r.crashed = ""
          /\ r.ret <=> ~TransientFailure(fail)
          /\ ~r.ret =>
               /\ LeavesRegistryAlone(r)
               /\ r.sShutdownObserverRegistered =
                    (sShutdownObserverRegistered \/ fail \in {"spawn", "dispatch"})
               /\ r.spawned = IF fail = "dispatch" THEN spawned + 1 ELSE spawned
               /\ again.ret
               /\ again.crashed = ""
               /\ again.sBackgroundThread = r.spawned + 1
               /\ again.sLiveActorsForBackgroundThread = r.spawned + 1
               /\ again.sShutdownTimer
               /\ again.sShutdownObserverRegistered

\* The first creation request failed at the thread spawn: its failure task
\* is queued, nothing is registered and no thread exists, but the observer
\* registration flag is set.
C21_Witness ==
  /\ crashed = ""
  /\ numCalls = 1
  /\ HeadIs(queue["main"], "FailedCreateCallbackRunnable")
  /\ spawned = 0
  /\ sBackgroundThread = NULL
  /\ sLiveActorsForBackgroundThread = NULL
  /\ ~sShutdownTimer
  /\ sLiveActorCount = 0
  /\ sShutdownObserverRegistered

\* The number of places actor a takes in a thread's live-actor array.
Places(arr, a) == Cardinality({i \in 1..Len(arr) : arr[i] = a})

\* C22: when the open task of a cross-process actor runs and Open fails, the
\* arrays are left as they were, the actor stays out of them, Destroy posts
\* MainThreadActorDestroy for it and the count is not touched by the open
\* task; when Open succeeds the actor is appended to the array it was
\* allocated for, which did not hold it.  No actor is ever twice in an array
\* or in an array other than its own, an actor whose channel is not open is
\* in none, MainThreadActorDestroy runs at most once on a cross-process
\* actor and takes exactly one off the count, and the assertions of
\* SetLiveActorArray never fail.
C22_OpenTaskOutcome ==
  [][ /\ crashed' \notin { "SetLiveActorArray: already contained",
                           "SetLiveActorArray: mLiveActorArray",
                           "SetLiveActorArray: mIsOtherProcessActor" }
      /\ crashed' = "" =>
           /\ \A tid \in BgIds :
                HeadIs(bgQueue[tid], "ConnectActorRunnable") =>
                  LET a == Head(bgQueue[tid]).a
                      arr == parentActor[a].loop
                  IN  /\ BgConnectActor(tid, FALSE) =>
                           /\ liveActors' = liveActors
                           /\ parentActor'[a] = parentActor[a]
                           /\ parentActor'[a].chan = "unopened"
                           /\ parentActor'[a].mLiveActorArray = NULL
                           /\ queue'["main"] =
                                Append(queue["main"],
                                       Task("MainThreadActorDestroy", a, "main"))
                           /\ sLiveActorCount' = sLiveActorCount
                      /\ BgConnectActor(tid, TRUE) =>
                           /\ Places(liveActors[arr], a) = 0
                           /\ liveActors' = [liveActors EXCEPT ![arr] = Append(@, a)]
                           /\ parentActor'[a].mLiveActorArray = arr
                           /\ parentActor'[a].chan = "open"
                           /\ queue' = queue
                           /\ sLiveActorCount' = sLiveActorCount
           /\ \A a \in ActorIds, i \in BgIds :
                /\ Places(liveActors'[i], a) <= 1
                /\ Places(liveActors'[i], a) = 1 =>
                     /\ parentActor'[a].mIsOtherProcessActor
                     /\ parentActor'[a].chan = "open"
                     /\ parentActor'[a].loop = i
                     /\ parentActor'[a].mLiveActorArray = i
           /\ \A a \in ActorIds :
                parentActor'[a].mIsOtherProcessActor =>
                  /\ parentActor'[a].nMainDestroy <= 1
                  /\ parentActor'[a].nMainDestroy # parentActor[a].nMainDestroy =>
                       sLiveActorCount' = sLiveActorCount - 1 ]_vars

\* A cross-process actor whose Open failed has been torn down on the main
\* thread without ever entering an array, while a same-process request keeps
\* the thread registered: the count is back to the one reservation.
C22_Witness ==
  /\ crashed = ""
  /\ parentActor[1].mIsOtherProcessActor
  /\ parentActor[1].st = "freed"
  /\ parentActor[1].chan = "unopened"
  /\ parentActor[1].nDestroyed = 0
  /\ parentActor[1].nMainDestroy = 1
  /\ sLiveActorCount = 1
  /\ sBackgroundThread = 1
  /\ liveActors[1] = << >>

\* The tasks of one type and one target in a queue.
CountFor(q, type, t) ==
  Cardinality({i \in 1..Len(q) : q[i].type = type /\ q[i].t = t})

\* CreateCallbackRunnable tasks for the targets cbs, in order.
SuccessTasks(cbs) == [i \in 1..Len(cbs) |-> Task("CreateCallbackRunnable", 0, cbs[i])]

\* C23: sPendingCallbacks changes only by one callback being appended or by
\* all of them being removed at once, and a removal hands every callback to
\* exactly one outcome: either the step publishes the registered thread's
\* message loop and queues a CreateCallbackRunnable (Success) for each
\* callback in enqueue order and no failure task, or the step is
\* ShutdownBackgroundThread unregistering the thread and queueing one
\* FailedCreateCallbackRunnable per callback on its target and no
\* CreateCallbackRunnable.  No callback stays queued forever: while one is
\* queued, the task that removes it, the registered thread's
\* RequestMessageLoopRunnable, is queued on that running thread or on the
\* main thread.
C23_PendingDrainedOnce ==
  /\ [][ crashed' = "" =>
           LET P == sPendingCallbacks.elems
               Q == sPendingCallbacks'.elems
           IN  /\ Q # P =>
                    \/ \E t \in CThreads : Q = Append(P, t)
                    \/ Q = << >>
               /\ (P # << >> /\ Q = << >>) =>
                    \/ /\ sBackgroundThreadMessageLoop = NULL
                       /\ sBackgroundThreadMessageLoop' # NULL
                       /\ sBackgroundThreadMessageLoop' = sBackgroundThread'
                       /\ published'[sBackgroundThread'] = 1
                       /\ queue'["main"] = Tail(queue["main"]) \o SuccessTasks(P)
                       /\ \A t \in CThreads \ {"main"} : queue'[t] = queue[t]
                    \/ /\ sBackgroundThread # NULL
                       /\ sBackgroundThread' = NULL
                       /\ sBackgroundThreadMessageLoop' = NULL
                       /\ CountTasks(queue'["main"], "CreateCallbackRunnable")
                            = CountTasks(queue["main"], "CreateCallbackRunnable")
                       /\ \A t \in CThreads :
                            CountFor(queue'[t], "FailedCreateCallbackRunnable", t)
                              = CountFor(queue[t], "FailedCreateCallbackRunnable", t)
                                + Places(P, t) ]_vars
  /\ [](crashed = "" /\ sPendingCallbacks.elems # << >> =>
          /\ sBackgroundThread # NULL
          /\ bgState[sBackgroundThread] = "running"
          /\ CountTasks(bgQueue[sBackgroundThread], "RequestMessageLoopRunnable")
              + Cardinality({i \in 1..Len(queue["main"]) :
                               /\ queue["main"][i].type = "RequestMessageLoopRunnable"
                               /\ queue["main"][i].a = sBackgroundThread}) = 1)

\* Two callbacks waited in sPendingCallbacks; the thread published its loop
\* and both were handed to CreateCallbackRunnable in enqueue order.
C23_Witness ==
  /\ crashed = ""
  /\ sPendingCallbacks.elems = << >>
  /\ sBackgroundThreadMessageLoop = 1
  /\ queue["main"] = SuccessTasks(<< "w1", "main" >>)

\* C24: in every state between two tasks, if sPendingCallbacks holds a
\* callback then a dispatcher thread is registered and its message loop is
\* not published (sBackgroundThreadMessageLoop is null and the registered
\* thread has never written it); an array that was never allocated holds
\* nothing.
C24_PendingOnlyInWindow ==
  /\ sPendingCallbacks.elems # << >> =>
       /\ sBackgroundThread # NULL
       /\ sBackgroundThreadMessageLoop = NULL
       /\ published[sBackgroundThread] = 0
       /\ ~sShutdownHasStarted
  /\ sPendingCallbacks.isNull => sPendingCallbacks.elems = << >>

\* Two same-process requests wait in sPendingCallbacks behind a cross-process
\* one that created the thread; the thread has not published its loop.
C24_Witness ==
  /\ crashed = ""
  /\ Len(sPendingCallbacks.elems) = 2
  /\ numAllocs = 1
  /\ sBackgroundThread = 1
  /\ sBackgroundThreadMessageLoop = NULL
  /\ sLiveActorCount = 3

\* C25 as claimed: MOZ_ASSERT(sBackgroundThreadMessageLoop) of
\* CreateCallbackRunnable::Run holds on every execution, so every Success is
\* given a published message loop.
C25_SuccessHasLoop ==
  crashed # "CreateCallbackRunnable: sBackgroundThreadMessageLoop"

\* The tasks of one type for actor a in a queue.
CountOn(q, type, a) ==
  Cardinality({i \in 1..Len(q) : q[i].type = type /\ q[i].a = a})

\* C26: the step in which ParentImpl::ActorDestroy runs on an actor marks it
\* destroyed, closes its channel, takes it out of its live-actor array and
\* queues one Destroy task for it on the dispatcher thread it runs on; it
\* queues no MainThreadActorDestroy, and leaves the count, the actor's
\* references and its main-thread state alone.  MainThreadActorDestroy is
\* queued for a destroyed actor only by the step that runs its Destroy task,
\* and runs on it only as the task at the head of the main thread's queue.
C26_TeardownDeferred ==
  [][ crashed' = "" =>
        \A a \in ActorIds :
          LET p == parentActor[a]
              tid == p.loop
          IN  /\ parentActor'[a].nDestroyed # p.nDestroyed =>
                   /\ parentActor'[a] =
                        [p EXCEPT !.mActorDestroyed = TRUE, !.nDestroyed = @ + 1,
                                  !.chan = "closed", !.mLiveActorArray = NULL,
                                  !.nDestroyPosted = @ + 1]
                   /\ Places(liveActors'[tid], a) = 0
                   /\ CountOn(bgQueue'[tid], "Destroy", a)
                        = CountOn(bgQueue[tid], "Destroy", a) + 1
                   /\ CountOn(queue'["main"], "MainThreadActorDestroy", a)
                        = CountOn(queue["main"], "MainThreadActorDestroy", a)
                   /\ sLiveActorCount' = sLiveActorCount
              /\ (p.mActorDestroyed
                    /\ CountOn(queue'["main"], "MainThreadActorDestroy", a)
                         > CountOn(queue["main"], "MainThreadActorDestroy", a)) =>
                   /\ HeadIs(bgQueue[tid], "Destroy")
                   /\ Head(bgQueue[tid]).a = a
                   /\ bgQueue'[tid] = Tail(bgQueue[tid])
              /\ parentActor'[a].nMainDestroy # p.nMainDestroy =>
                   /\ HeadIs(queue["main"], "MainThreadActorDestroy")
                   /\ Head(queue["main"]).a = a
                   /\ parentActor'[a].nDestroyed = p.nDestroyed ]_vars

\* ActorDestroy has run on an open cross-process actor: the actor is marked
\* destroyed and out of the array, its Destroy task is queued on its
\* dispatcher thread, and its main-thread teardown has neither run nor been
\* queued: the count still includes it.
C26_Witness ==
  /\ crashed = ""
  /\ parentActor[1].mIsOtherProcessActor
  /\ parentActor[1].mActorDestroyed
  /\ parentActor[1].nMainDestroy = 0
  /\ liveActors[1] = << >>
  /\ CountOn(bgQueue[1], "Destroy", 1) = 1
  /\ CountOn(queue["main"], "MainThreadActorDestroy", 1) = 0
  /\ sLiveActorCount = 1

\* The thread has been asked to shut down: ShutdownBackgroundThreadRunnable
\* and the exit request are the last two tasks of queue q.
AskedToShutDown(q) ==
  /\ Len(q) >= 2
  /\ q[Len(q) - 1].type = "ShutdownBackgroundThreadRunnable"
  /\ q[Len(q)].type = "ThreadExit"

\* C27: a step in which MainThreadActorDestroy runs takes one off
\* sLiveActorCount.  If that makes it zero then sBackgroundThread,
\* sBackgroundThreadMessageLoop and sLiveActorsForBackgroundThread are null
\* afterwards, and the thread that was registered has been asked to shut
\* down in that step; inside the spin loop of the final shutdown, where the
\* thread is already unregistered, the loop ends and its frame asks the
\* thread to shut down before the main thread runs anything else.  If the
\* count stays positive the thread, its loop and array, the queues of the
\* dispatcher threads, the timer and the spin loop are left as they were.
C27_ZeroTriggersTeardown ==
  [][ crashed' = "" =>
        \A a \in ActorIds :
          parentActor'[a].nMainDestroy # parentActor[a].nMainDestroy =>
            /\ sLiveActorCount' = sLiveActorCount - 1
            /\ sLiveActorCount' = 0 =>
                 /\ sBackgroundThread' = NULL
                 /\ sBackgroundThreadMessageLoop' = NULL
                 /\ sLiveActorsForBackgroundThread' = NULL
                 /\ sBackgroundThread # NULL =>
                      /\ ~sShutdownHasStarted
                      /\ bgState'[sBackgroundThread] = "running"
                      /\ AskedToShutDown(bgQueue'[sBackgroundThread])
                 /\ sBackgroundThread = NULL =>
                      /\ sShutdownHasStarted
                      /\ spin.on
                      /\ spin' = spin
                      /\ ~MainCanRun'
            /\ sLiveActorCount' # 0 =>
                 /\ sBackgroundThread' = sBackgroundThread
                 /\ sBackgroundThreadMessageLoop' = sBackgroundThreadMessageLoop
                 /\ sLiveActorsForBackgroundThread' = sLiveActorsForBackgroundThread
                 /\ liveActors' = liveActors
                 /\ bgQueue' = bgQueue
                 /\ bgState' = bgState
                 /\ sShutdownTimer' = sShutdownTimer
                 /\ timerArmed' = timerArmed
                 /\ spin' = spin ]_vars

\* The last actor of the first thread was torn down on the main thread
\* outside shutdown: nothing is registered and the thread, still running,
\* has its shutdown runnable and exit request queued.
C27_Witness ==
  /\ crashed = ""
  /\ ~sShutdownHasStarted
  /\ parentActor[1].nMainDestroy = 1
  /\ parentActor[1].loop = 1
  /\ sLiveActorCount = 0
  /\ sBackgroundThread = NULL
  /\ sBackgroundThreadMessageLoop = NULL
  /\ sLiveActorsForBackgroundThread = NULL
  /\ bgState[1] = "running"
  /\ AskedToShutDown(bgQueue[1])

\* C28 as claimed: every Parent actor whose channel is open, same-process or
\* cross-process, is in the live-actor array of its dispatcher thread.
C28_OpenActorsRegistered ==
  crashed = "" =>
    \A a \in ActorIds :
      parentActor[a].chan = "open" => Places(liveActors[parentActor[a].loop], a) = 1

\* C29 as claimed: an open task never finds the actor of its thread's slot
\* already set: MOZ_ASSERT(!threadLocalInfo->mActor) of
\* OpenMainProcessActorRunnable::Run never fails.
C29_OpenFindsSlotEmpty ==
  crashed # "OpenMainProcessActorRunnable: mActor already set"

\* C30: the step that sets ParentImpl's shutdown flag also has ChildImpl's
\* flag set and the main thread's slot closed; the spin loop of
\* ShutdownBackgroundThread is entered only in that step, after both, and
\* the actor the main thread's slot held is closed by then.  While the loop
\* spins no step constructs an actor, spawns a thread, queues a callback in
\* sPendingCallbacks or schedules a CreateCallbackRunnable or an open task,
\* the main thread's slot stays absent, and CreateActorForSameProcess is
\* never entered with the shutdown flag set.
C30_ChildClosedBeforeSpin ==
  [][ /\ (crashed' = "" /\ ~sShutdownHasStarted /\ sShutdownHasStarted') =>
           /\ sChildShutdownHasStarted'
           /\ ~threadLocal'["main"].exists
      /\ (crashed' = "" /\ ~spin.on /\ spin'.on) =>
           /\ ~sShutdownHasStarted
           /\ sShutdownHasStarted'
           /\ sChildShutdownHasStarted'
           /\ ~threadLocal'["main"].exists
           /\ threadLocal["main"].mActor # NULL =>
                /\ childActor'[threadLocal["main"].mActor].chan = "closed"
                /\ childActor'[threadLocal["main"].mActor].mActorDestroyed
      /\ (crashed' = "" /\ spin.on) =>
           /\ numActors' = numActors
           /\ spawned' = spawned
           /\ sPendingCallbacks'.elems = << >>
           /\ CountTasks(queue'["main"], "CreateCallbackRunnable")
                <= CountTasks(queue["main"], "CreateCallbackRunnable")
           /\ \A t \in CThreads :
                CountTasks(queue'[t], "OpenMainProcessActorRunnable")
                  <= CountTasks(queue[t], "OpenMainProcessActorRunnable")
           /\ ~threadLocal'["main"].exists
      /\ spin.on => crashed' # "CreateActorForSameProcess: shutdown has started" ]_vars

\* The main thread's actor was closed by the observer before the loop was
\* entered, its ActorDestroy has run on the dispatcher thread during the
\* spin, and a creation request of thread w1 waits at the head of the main
\* thread's queue while the loop spins.
C30_Witness ==
  /\ crashed = ""
  /\ spin.on
  /\ sChildShutdownHasStarted
  /\ childActor[1].mBoundThread = "main"
  /\ childActor[1].chan = "closed"
  /\ parentActor[1].nDestroyed = 1
  /\ sLiveActorCount = 1
  /\ HeadIs(queue["main"], "CreateActorRunnable")

\* C31 as claimed: the step that delivers a construction failure on a thread
\* (FailedCreateCallbackRunnable, or an open task whose Open fails) leaves
\* the thread's slot allocated with no actor and no callback; and while a
\* slot exists with no actor and no construction in flight, no step starts a
\* construction for it or gives it an actor, and a call of
\* GetOrCreateForCurrentThread on it only appends its callback.
C31_FailedSlotStaysEmpty ==
  [][ crashed' = "" =>
        \A t \in CThreads :
          /\ (TaskFailedCreate(t) \/ TaskOpenMainProcessActor(t, FALSE)) =>
               threadLocal'[t] = [exists |-> TRUE, mActor |-> NULL, mCallbacks |-> << >>]
          /\ (threadLocal[t].exists /\ threadLocal[t].mActor = NULL /\ InFlight(t) = 0) =>
               /\ InFlight(t)' = 0
               /\ threadLocal'[t].mActor = NULL
               /\ (numCalls' # numCalls /\ threadLocal'[t] # threadLocal[t]) =>
                    /\ threadLocal'[t] =
                         [threadLocal[t] EXCEPT !.mCallbacks = Append(@, numCalls')]
                    /\ queue' = queue
                    /\ bgQueue' = bgQueue
                    /\ sPendingCallbacks' = sPendingCallbacks
                    /\ spawned' = spawned
                    /\ sLiveActorCount' = sLiveActorCount ]_vars


\* The positions of callback c in the notifications made on thread t.
FiredAt(c, t) == {i \in 1..Len(fired[t]) : fired[t][i][1] = c}

\* Callback c waits in the slot of thread t.
QueuedIn(c, t) ==
  \E i \in 1..Len(threadLocal[t].mCallbacks) : threadLocal[t].mCallbacks[i] = c

\* Something that will notify the callbacks of thread t's slot is under way:
\* a construction stage, a FailedCreateCallbackRunnable, or an
\* AlreadyCreatedCallbackRunnable for a slot that holds an actor.
DeliveryPending(t) ==
  \/ InFlight(t) > 0
  \/ CountTasks(queue[t], "FailedCreateCallbackRunnable") > 0
  \/ /\ threadLocal[t].mActor # NULL
     /\ CountTasks(queue[t], "AlreadyCreatedCallbackRunnable") > 0

C33_StaleReportIgnored ==
  /\ [][ (/\ crashed' = ""
          /\ TaskRequestMessageLoopMain
          /\ Head(queue["main"]).a # sBackgroundThread) =>
            /\ sBackgroundThreadMessageLoop' = sBackgroundThreadMessageLoop
            /\ sPendingCallbacks' = sPendingCallbacks
            /\ published' = published
            /\ queue' = [queue EXCEPT !["main"] = Tail(@)] ]_vars
  /\ [](sBackgroundThreadMessageLoop # NULL =>
          sBackgroundThreadMessageLoop = sBackgroundThread)

\* The first dispatcher thread was unregistered by ShutdownBackgroundThread
\* before its report arrived: its probe has run, its report has run on the
\* main thread, and its loop was never published.
C33_Witness ==
  /\ crashed = ""
  /\ sBackgroundPRThread = 1
  /\ published[1] = 0
  /\ CountOn(queue["main"], "RequestMessageLoopRunnable", 1) = 0
  /\ sBackgroundThread = NULL
  /\ sBackgroundThreadMessageLoop = NULL


\* C34: while a forced-close pass is under way (queued on the dispatcher
\* thread, or on its way back to the main thread) the spin loop is still
\* running with sLiveActorCount above zero and the dispatcher thread has
\* neither exited nor been asked to shut down; ShutdownTimerCallback adds one
\* to the count, the main-thread half of the pass takes one off, and when the
\* dispatcher-thread half has run no actor of the array is left open.
C34_ForcedCloseHoldsSpin ==
  /\ [][ crashed' = "" =>
           /\ TimerFire =>
                /\ sLiveActorCount' = sLiveActorCount + 1
                /\ ForceCloseInFlight' = ForceCloseInFlight + 1
           /\ TaskForceCloseMain =>
                /\ sLiveActorCount' = sLiveActorCount - 1
                /\ ForceCloseInFlight' = ForceCloseInFlight - 1
           /\ \A tid \in BgIds :
                BgForceClose(tid) =>
                  /\ sLiveActorCount' = sLiveActorCount
                  /\ CountTasks(queue'["main"], "ForceCloseBackgroundActorsRunnable") = 1
                  /\ \A i \in 1..Len(liveActors'[spin.liveActors]) :
                       parentActor'[liveActors'[spin.liveActors][i]].chan # "open" ]_vars
  /\ []((crashed = "" /\ ForceCloseInFlight > 0) =>
          /\ ForceCloseInFlight = 1
          /\ timerFires = 1
          /\ spin.on
          /\ sLiveActorCount >= 1
          /\ bgState[spin.thread] = "running"
          /\ ~AskedToShutDown(bgQueue[spin.thread]))

\* The timer fired with one cross-process actor open; the pass closed it on
\* the dispatcher thread and is on its way back to the main thread, behind the
\* actor's MainThreadActorDestroy; the spin loop is still running.
C34_Witness ==
  /\ crashed = ""
  /\ spin.on
  /\ timerFires = 1
  /\ sLiveActorCount = 2
  /\ CountTasks(queue["main"], "MainThreadActorDestroy") = 1
  /\ CountTasks(queue["main"], "ForceCloseBackgroundActorsRunnable") = 1


\* C35: sLiveActorCount is at least the number of actors in the live-actor
\* array of the registered dispatcher thread and of the thread the spin loop
\* is waiting for; every other array is empty and no actor points to it; and
\* the assertion liveActors->IsEmpty() at the end of the spin loop never
\* fails.
C35_CountCoversArray ==
  /\ crashed # "ShutdownBackgroundThread: liveActors not empty"
  /\ crashed = "" =>
       \A arr \in BgIds :
         IF arr = sLiveActorsForBackgroundThread \/ (spin.on /\ arr = spin.liveActors)
           THEN sLiveActorCount >= Len(liveActors[arr])
           ELSE /\ liveActors[arr] = << >>
                /\ \A a \in ActorIds : parentActor[a].mLiveActorArray # arr

\* A cross-process actor was registered in the array and later destroyed;
\* the spin loop has been left with the count at zero and the array empty.
C35_Witness ==
  /\ crashed = ""
  /\ notified
  /\ ~spin.on
  /\ spin.thread # NULL
  /\ sLiveActorCount = 0
  /\ liveActors[spin.liveActors] = << >>
  /\ \E a \in ActorIds :
       /\ parentActor[a].mIsOtherProcessActor
       /\ parentActor[a].nDestroyed = 1
       /\ parentActor[a].nMainDestroy = 1


\* C36: the step in which ShutdownBackgroundThreadRunnable runs on dispatcher
\* thread tid sets sBackgroundPRThread to null if it named tid and leaves it
\* unchanged otherwise, in particular when it names a newer thread.
C36_ClearsOwnIdentityOnly ==
  [][ \A tid \in BgIds :
        (crashed' = "" /\ BgShutdownRunnable(tid)) =>
          sBackgroundPRThread' =
            IF sBackgroundPRThread = tid THEN NULL ELSE sBackgroundPRThread ]_vars

\* The first dispatcher thread was unregistered and is about to run its
\* ShutdownBackgroundThreadRunnable, while the second thread is registered and
\* its probe has already stored its identity.
C36_Witness ==
  /\ crashed = ""
  /\ sBackgroundThread = 2
  /\ sBackgroundPRThread = 2
  /\ bgState[1] = "running"
  /\ HeadIs(bgQueue[1], "ShutdownBackgroundThreadRunnable")


\* The tasks of a dispatcher thread that work on actors.
ActorTaskTypes ==
  {"ConnectActorRunnable", "ChannelClosed", "ForceCloseBackgroundActorsRunnable"}

\* C37: a RequestMessageLoopRunnable queued on a dispatcher thread is the
\* first task of its queue; every step in which ConnectActorRunnable,
\* ParentImpl::ActorDestroy or the dispatcher-thread half of
\* ForceCloseBackgroundActorsRunnable runs on a dispatcher thread starts in a
\* state where sBackgroundPRThread names that thread; and
\* AssertIsOnBackgroundThread never fails.
C37_ActorTasksOnBackgroundThread ==
  /\ [][ \A tid \in BgIds :
           (\/ \E openOk \in BOOLEAN : BgConnectActor(tid, openOk)
            \/ \E a \in ActorIds : BgPeerDisconnect(tid, a)
            \/ BgChannelClosed(tid)
            \/ BgForceClose(tid)) =>
             sBackgroundPRThread = tid ]_vars
  /\ [](/\ crashed # "AssertIsOnBackgroundThread"
        /\ \A tid \in BgIds :
             /\ \A i \in 1..Len(bgQueue[tid]) :
                  bgQueue[tid][i].type = "RequestMessageLoopRunnable" => i = 1
             /\ (/\ bgState[tid] = "running"
                 /\ CountTasks(bgQueue[tid], "RequestMessageLoopRunnable") = 0
                 /\ \E i \in 1..Len(bgQueue[tid]) :
                      bgQueue[tid][i].type \in ActorTaskTypes) =>
                  sBackgroundPRThread = tid)

\* During the shutdown spin loop a cross-process actor was connected and
\* registered on the dispatcher thread, the deadline timer fired, and the
\* forced-close pass has run on that thread and closed the actor.
C37_Witness ==
  /\ crashed = ""
  /\ spin.on
  /\ timerFires = 1
  /\ sBackgroundPRThread = spin.thread
  /\ CountTasks(bgQueue[spin.thread], "ForceCloseBackgroundActorsRunnable") = 0
  /\ \E a \in ActorIds :
       /\ parentActor[a].mIsOtherProcessActor
       /\ parentActor[a].nDestroyed = 1
       /\ parentActor[a].nMainDestroy = 0


\* C38 as claimed: while a MainThreadActorDestroy is queued for an actor the
\* reference it will release is still held; ~ParentImpl never runs off the
\* main thread and MainThreadActorDestroy never runs on a released actor.
C38_LastReferenceOnMainThread ==
  /\ crashed \notin {"~ParentImpl: not on the main thread",
                     "MainThreadActorDestroy: released actor"}
  /\ \A a \in ActorIds :
       CountOn(queue["main"], "MainThreadActorDestroy", a) > 0 =>
         parentActor[a].refs >= 1

=============================================================================
